---- MODULE Spec2Model ----
(***************************************************************************)
(* MongoDB Atlas Data API MCP server (primrose-mcp-mongodb).               *)
(*                                                                         *)
(* The worker's fetch handler validates per-request tenant credentials,    *)
(* builds a fresh server and client, and a tool handler parses its         *)
(* JSON-string arguments, calls one client method, which POSTs one HTTP    *)
(* request to the Data API; the response status is mapped to a result or   *)
(* a typed error, and the handler wraps either into a response envelope.   *)
(***************************************************************************)
EXTENDS Integers, Sequences, FiniteSets, TLC

\* ---------------------------------------------------------------- bounds

\* Number of inbound /mcp requests that may be in flight at once.
MaxReqs == 2

\* ------------------------------------------------------- JavaScript values

\* A value that may be missing (string | undefined, string | null) is a
\* sequence of length 0 or 1.
None == <<>>
Some(x) == <<x>>

\* JavaScript truthiness of an optional string: missing and "" are falsy.
TruthyStr(o) == o # None /\ o[1] # ""

\* `a || undefined` on an optional string.
OrUndefined(o) == IF TruthyStr(o) THEN o ELSE None

\* JSON / JavaScript values, tagged by type.
Undef == [t |-> "undefined"]
JNull == [t |-> "null"]
NaN == [t |-> "NaN"]
JBool(b) == [t |-> "boolean", v |-> b]
JNum(n) == [t |-> "number", v |-> n]
JStr(s) == [t |-> "string", v |-> s]
JArr(a) == [t |-> "array", v |-> a]
JObj(f) == [t |-> "object", v |-> f]
EmptyObj == JObj(<<>>)

\* JavaScript truthiness of a value.
Truthy(x) ==
  CASE x.t \in {"undefined", "null", "NaN"} -> FALSE
    [] x.t = "boolean" -> x.v
    [] x.t = "number" -> x.v # 0
    [] x.t = "string" -> x.v # ""
    [] OTHER -> TRUE

\* Property read `x.key`; reading a property of null or undefined throws
\* (callers test CanRead first), a missing property reads undefined.
CanRead(x) == x.t \notin {"undefined", "null"}
Get(x, key) ==
  IF x.t = "object" /\ key \in DOMAIN x.v THEN x.v[key] ELSE Undef

\* A variant of the test that also takes an object.
IsArrayOrObject(x) == x.t \in {"array", "object"}

\* Array.isArray
IsArray(x) == x.t = "array"

\* `a || b`
Or(a, b) == IF Truthy(a) THEN a ELSE b

\* The sample document {"a": 1}.
DocA == JObj("a" :> JNum(1))

\* JSON.parse over the JSON texts the model draws from.  The result is
\* [ok |-> TRUE, v |-> value] or, for a text that is not JSON (a SyntaxError),
\* [ok |-> FALSE].
JSONparse(text) ==
  CASE text = "null" -> [ok |-> TRUE, v |-> JNull]
    [] text = "0" -> [ok |-> TRUE, v |-> JNum(0)]
    [] text = "{}" -> [ok |-> TRUE, v |-> EmptyObj]
    [] text = "{\"a\":1}" -> [ok |-> TRUE, v |-> DocA]
    [] text = "[]" -> [ok |-> TRUE, v |-> JArr(<<>>)]
    [] text = "[{\"a\":1}]" -> [ok |-> TRUE, v |-> JArr(<<DocA>>)]
    [] text = "{\"error\":\"E\"}" -> [ok |-> TRUE, v |-> JObj("error" :> JStr("E"))]
    [] text = "{\"message\":\"M\"}" -> [ok |-> TRUE, v |-> JObj("message" :> JStr("M"))]
    [] text = "{\"error\":\"E\",\"message\":\"M\"}" ->
         [ok |-> TRUE, v |-> JObj("error" :> JStr("E") @@ "message" :> JStr("M"))]
    [] text = "{\"error\":\"\",\"message\":\"M\"}" ->
         [ok |-> TRUE, v |-> JObj("error" :> JStr("") @@ "message" :> JStr("M"))]
    [] text = "{\"count\":true,\"sum\":\"amount\"}" ->
         [ok |-> TRUE,
          v |-> JObj("count" :> JBool(TRUE) @@ "sum" :> JStr("amount"))]
    [] text = "{\"avg\":\"price\",\"min\":\"price\",\"max\":\"price\"}" ->
         [ok |-> TRUE,
          v |-> JObj("avg" :> JStr("price") @@ "min" :> JStr("price")
                     @@ "max" :> JStr("price"))]
    [] text = "{\"document\":{\"a\":1}}" ->
         [ok |-> TRUE, v |-> JObj("document" :> DocA)]
    [] text = "{\"document\":null}" ->
         [ok |-> TRUE, v |-> JObj("document" :> JNull)]
    [] text = "{\"documents\":[]}" ->
         [ok |-> TRUE, v |-> JObj("documents" :> JArr(<<>>))]
    [] text = "{\"documents\":[{\"a\":1}]}" ->
         [ok |-> TRUE, v |-> JObj("documents" :> JArr(<<DocA>>))]
    [] text = "{\"documents\":[{\"count\":3}]}" ->
         [ok |-> TRUE,
          v |-> JObj("documents" :> JArr(<<JObj("count" :> JNum(3))>>))]
    [] text = "{\"documents\":[{\"_id\":\"a\",\"count\":2},{\"_id\":null,\"count\":1}]}" ->
         [ok |-> TRUE,
          v |-> JObj("documents" :>
                   JArr(<<JObj("_id" :> JStr("a") @@ "count" :> JNum(2)),
                          JObj("_id" :> JNull @@ "count" :> JNum(1))>>))]
    [] text = "{\"documents\":[null]}" ->
         [ok |-> TRUE, v |-> JObj("documents" :> JArr(<<JNull>>))]
    [] text = "{\"insertedId\":\"id1\"}" ->
         [ok |-> TRUE, v |-> JObj("insertedId" :> JStr("id1"))]
    [] text = "{\"insertedIds\":[\"id1\",\"id2\"]}" ->
         [ok |-> TRUE,
          v |-> JObj("insertedIds" :> JArr(<<JStr("id1"), JStr("id2")>>))]
    [] text = "{\"matchedCount\":1,\"modifiedCount\":1}" ->
         [ok |-> TRUE,
          v |-> JObj("matchedCount" :> JNum(1) @@ "modifiedCount" :> JNum(1))]
    [] text = "{\"matchedCount\":1,\"modifiedCount\":0}" ->
         [ok |-> TRUE,
          v |-> JObj("matchedCount" :> JNum(1) @@ "modifiedCount" :> JNum(0))]
    [] text = "{\"matchedCount\":0,\"modifiedCount\":0,\"upsertedId\":\"x\"}" ->
         [ok |-> TRUE,
          v |-> JObj("matchedCount" :> JNum(0) @@ "modifiedCount" :> JNum(0)
                     @@ "upsertedId" :> JStr("x"))]
    [] text = "{\"matchedCount\":1,\"modifiedCount\":1,\"upsertedId\":\"x\"}" ->
         [ok |-> TRUE,
          v |-> JObj("matchedCount" :> JNum(1) @@ "modifiedCount" :> JNum(1)
                     @@ "upsertedId" :> JStr("x"))]
    [] text = "{\"documents\":[{\"_id\":\"b\"},{\"_id\":null},{\"_id\":\"a\"}]}" ->
         [ok |-> TRUE,
          v |-> JObj("documents" :>
                   JArr(<<JObj("_id" :> JStr("b")), JObj("_id" :> JNull),
                          JObj("_id" :> JStr("a"))>>))]
    [] text = "{\"deletedCount\":1}" ->
         [ok |-> TRUE, v |-> JObj("deletedCount" :> JNum(1))]
    [] text = "{\"deletedCount\":0}" ->
         [ok |-> TRUE, v |-> JObj("deletedCount" :> JNum(0))]
    [] OTHER -> [ok |-> FALSE]

\* JSON.stringify keeps the value but drops object keys whose value is
\* undefined and writes undefined array items as null.
RECURSIVE JSONstringify(_)
JSONstringify(x) ==
  CASE x.t = "object" ->
         JObj([k \in {j \in DOMAIN x.v : x.v[j] # Undef} |-> JSONstringify(x.v[k])])
    [] x.t = "array" ->
         JArr([i \in DOMAIN x.v |->
                IF x.v[i] = Undef THEN JNull ELSE JSONstringify(x.v[i])])
    [] x.t = "NaN" -> JNull
    [] OTHER -> x

\* Number.parseInt(s, 10) of a string given as its characters: leading
\* whitespace is skipped, one sign is read, then the longest run of decimal
\* digits; no digit at all gives NaN.
IsDigit(c) == c \in {"0", "1", "2", "3", "4", "5", "6", "7", "8", "9"}
DigitVal(c) ==
  CASE c = "0" -> 0 [] c = "1" -> 1 [] c = "2" -> 2 [] c = "3" -> 3
    [] c = "4" -> 4 [] c = "5" -> 5 [] c = "6" -> 6 [] c = "7" -> 7
    [] c = "8" -> 8 [] OTHER -> 9
RECURSIVE SkipSpace(_, _)
SkipSpace(s, i) ==
  IF i <= Len(s) /\ s[i] = " " THEN SkipSpace(s, i + 1) ELSE i
RECURSIVE ReadDigits(_, _, _, _)
ReadDigits(s, i, acc, any) ==
  IF i <= Len(s) /\ IsDigit(s[i])
    THEN ReadDigits(s, i + 1, acc * 10 + DigitVal(s[i]), TRUE)
    ELSE [any |-> any, n |-> acc]
parseInt(s) ==
  LET i == SkipSpace(s, 1)
      signed == i <= Len(s) /\ s[i] \in {"-", "+"}
      neg == signed /\ s[i] = "-"
      d == ReadDigits(s, IF signed THEN i + 1 ELSE i, 0, FALSE)
  IN  IF d.any THEN JNum(IF neg THEN 0 - d.n ELSE d.n) ELSE NaN

\* ------------------------------------------------------------------ errors

\* Built-in errors: no statusCode, no retryable flag.
Error(message) == [name |-> "Error", message |-> message]
SyntaxError(message) == [name |-> "SyntaxError", message |-> message]
TypeError(message) == [name |-> "TypeError", message |-> message]

\* The error classes of utils/errors: MongoDbApiError carries the HTTP status
\* and a retryable flag; AuthenticationError (never retryable) and
\* RateLimitError (always retryable, with the retry-after seconds) extend it.
MongoDbApiError(message, statusCode) ==
  [name |-> "MongoDbApiError", message |-> message, statusCode |-> statusCode,
   retryable |-> FALSE]
AuthenticationError(message) ==
  [name |-> "AuthenticationError", message |-> message, statusCode |-> 401,
   retryable |-> FALSE]
RateLimitError(message, retryAfter) ==
  [name |-> "RateLimitError", message |-> message, statusCode |-> 429,
   retryable |-> TRUE, retryAfter |-> retryAfter]

\* error instanceof MongoDbApiError / AuthenticationError
InstanceOfMongoDbApiError(e) ==
  e.name \in {"MongoDbApiError", "AuthenticationError", "RateLimitError"}
InstanceOfAuthenticationError(e) == e.name = "AuthenticationError"

\* What JSON.parse and a property read of null throw, and what fetch rejects
\* with when the transport fails.
JsonSyntaxError == SyntaxError("Unexpected token in JSON")
NullReadError == TypeError("Cannot read properties of null")
UndefinedReadError == TypeError("Cannot read properties of undefined")
FetchFailed == TypeError("fetch failed")

\* ------------------------------------------------------------- credentials

HeaderApiKey == "X-MongoDB-API-Key"
HeaderAppId == "X-MongoDB-App-ID"
HeaderDataSource == "X-MongoDB-Data-Source"
HeaderBaseUrl == "X-MongoDB-Base-URL"

\* request.headers.get(name): the value, or null when the header is absent.
HeadersGet(headers, name) ==
  IF name \in DOMAIN headers THEN Some(headers[name]) ELSE None

parseTenantCredentials(request) ==
  [apiKey |-> OrUndefined(HeadersGet(request.headers, HeaderApiKey)),
   appId |-> OrUndefined(HeadersGet(request.headers, HeaderAppId)),
   dataSource |-> OrUndefined(HeadersGet(request.headers, HeaderDataSource)),
   baseUrl |-> OrUndefined(HeadersGet(request.headers, HeaderBaseUrl))]

\* A variant that does not check the data source.
validateCredentialsNoDataSource(credentials) ==
  CASE ~TruthyStr(credentials.apiKey) ->
         Some(Error("Missing X-MongoDB-API-Key header."))
    [] ~TruthyStr(credentials.appId) ->
         Some(Error("Missing X-MongoDB-App-ID header."))
    [] OTHER -> None

\* validateCredentials: the error it throws, or None when it returns.
validateCredentials(credentials) ==
  CASE ~TruthyStr(credentials.apiKey) ->
         Some(Error("Missing X-MongoDB-API-Key header."))
    [] ~TruthyStr(credentials.appId) ->
         Some(Error("Missing X-MongoDB-App-ID header."))
    [] ~TruthyStr(credentials.dataSource) ->
         Some(Error("Missing X-MongoDB-Data-Source header."))
    [] OTHER -> None

\* ------------------------------------------------------------------ client

DEFAULT_BASE_URL == "https://data.mongodb-api.com/app"

\* `${x}` of an optional string
Interpolate(o) == IF o = None THEN "undefined" ELSE o[1]

\* An optional string as a JavaScript value
StrValue(o) == IF o = None THEN Undef ELSE JStr(o[1])

\* A variant whose base URL always has the default host and the app id.
MongoDbClientImplDefaultHost(credentials) ==
  [credentials |-> credentials,
   baseUrl |-> DEFAULT_BASE_URL \o "/" \o Interpolate(credentials.appId)
                 \o "/endpoint/data/v1"]

\* new MongoDbClientImpl(credentials)
MongoDbClientImpl(credentials) ==
  [credentials |-> credentials,
   baseUrl |-> IF TruthyStr(credentials.baseUrl)
                 THEN credentials.baseUrl[1]
                 ELSE DEFAULT_BASE_URL \o "/" \o Interpolate(credentials.appId)
                        \o "/endpoint/data/v1"]

createMongoDbClient(credentials) == MongoDbClientImpl(credentials)

\* A variant that throws only when there is no apiKey at all.
getAuthHeadersMissingOnly(client) ==
  IF client.credentials.apiKey = None
    THEN [ok |-> FALSE,
          error |-> AuthenticationError(
                      "No API key provided. Include X-MongoDB-API-Key header.")]
    ELSE [ok |-> TRUE,
          headers |-> [apiKey |-> client.credentials.apiKey[1],
                       contentType |-> "application/json",
                       accept |-> "application/json"]]

\* getAuthHeaders: [ok |-> FALSE, error] when it throws.
getAuthHeaders(client) ==
  IF ~TruthyStr(client.credentials.apiKey)
    THEN [ok |-> FALSE,
          error |-> AuthenticationError(
                      "No API key provided. Include X-MongoDB-API-Key header.")]
    ELSE [ok |-> TRUE,
          headers |-> [apiKey |-> client.credentials.apiKey[1],
                       contentType |-> "application/json",
                       accept |-> "application/json"]]

\* { dataSource: this.credentials.dataSource, ...body }: the spread of body
\* comes last, so a key of body wins.
RequestBody(client, body) ==
  JObj(body @@ ("dataSource" :> StrValue(client.credentials.dataSource)))

\* request, up to the await of fetch: the arguments of fetch are evaluated
\* first (getAuthHeaders may throw), then one POST is issued.
request(client, action, body) ==
  LET auth == getAuthHeaders(client)
  IN  IF ~auth.ok
        THEN [kind |-> "throw", error |-> auth.error]
        ELSE [kind |-> "fetch",
              req |-> [url |-> client.baseUrl \o "/action/" \o action,
                       method |-> "POST",
                       headers |-> auth.headers,
                       body |-> JSONstringify(RequestBody(client, body))]]

\* response.ok
ResponseOk(status) == status >= 200 /\ status <= 299

\* The seconds a 429 response is turned into.
RetryAfterSeconds(header) ==
  IF header # None /\ header[1] # <<>> THEN parseInt(header[1]) ELSE JNum(60)

\* A variant that reads the body's message field before its error field.
ApiErrorMessageMessageFirst(status, errorBody) ==
  LET default == "MongoDB API error: " \o ToString(status)
      parsed == JSONparse(errorBody)
  IN  IF parsed.ok /\ CanRead(parsed.v)
        THEN LET m == Or(Get(parsed.v, "message"),
                         Or(Get(parsed.v, "error"), JStr(default)))
             IN  m.v
        ELSE default

\* The message of a non-2xx response that is not 429, 401 or 403.
ApiErrorMessage(status, errorBody) ==
  LET default == "MongoDB API error: " \o ToString(status)
      parsed == JSONparse(errorBody)
  IN  IF parsed.ok /\ CanRead(parsed.v)
        THEN LET m == Or(Get(parsed.v, "error"),
                         Or(Get(parsed.v, "message"), JStr(default)))
             IN  m.v
        ELSE default

\* A variant of the status mapping that treats 403 as any other error status.
requestSettleOnly401(response) ==
  CASE response.kind = "failed" -> [kind |-> "throw", error |-> FetchFailed]
    [] response.status = 429 ->
         [kind |-> "throw",
          error |-> RateLimitError("Rate limit exceeded",
                                   RetryAfterSeconds(response.retryAfter))]
    [] response.status = 401 ->
         [kind |-> "throw",
          error |-> AuthenticationError(
                      "Authentication failed. Check your API key and App ID.")]
    [] ~ResponseOk(response.status) ->
         [kind |-> "throw",
          error |-> MongoDbApiError(ApiErrorMessage(response.status, response.body),
                                    response.status)]
    [] OTHER ->
         LET parsed == JSONparse(response.body)
         IN  IF parsed.ok
               THEN [kind |-> "return", value |-> parsed.v]
               ELSE [kind |-> "throw", error |-> JsonSyntaxError]

\* A variant of the status mapping that issues the request again on a 429.
requestSettleRetry429(response) ==
  CASE response.kind = "failed" -> [kind |-> "throw", error |-> FetchFailed]
    [] response.status = 429 -> [kind |-> "refetch"]
    [] response.status \in {401, 403} ->
         [kind |-> "throw",
          error |-> AuthenticationError(
                      "Authentication failed. Check your API key and App ID.")]
    [] ~ResponseOk(response.status) ->
         [kind |-> "throw",
          error |-> MongoDbApiError(ApiErrorMessage(response.status, response.body),
                                    response.status)]
    [] OTHER ->
         LET parsed == JSONparse(response.body)
         IN  IF parsed.ok
               THEN [kind |-> "return", value |-> parsed.v]
               ELSE [kind |-> "throw", error |-> JsonSyntaxError]

\* request, after the await of fetch: the status mapping.  The result is
\* [kind |-> "return", value] or [kind |-> "throw", error].
requestSettle(response) ==
  CASE response.kind = "failed" -> [kind |-> "throw", error |-> FetchFailed]
    [] response.status = 429 ->
         [kind |-> "throw",
          error |-> RateLimitError("Rate limit exceeded",
                                   RetryAfterSeconds(response.retryAfter))]
    [] response.status \in {401, 403} ->
         [kind |-> "throw",
          error |-> AuthenticationError(
                      "Authentication failed. Check your API key and App ID.")]
    [] ~ResponseOk(response.status) ->
         [kind |-> "throw",
          error |-> MongoDbApiError(ApiErrorMessage(response.status, response.body),
                                    response.status)]
    [] OTHER ->
         LET parsed == JSONparse(response.body)
         IN  IF parsed.ok
               THEN [kind |-> "return", value |-> parsed.v]
               ELSE [kind |-> "throw", error |-> JsonSyntaxError]

\* ---------------------------------------------------------- client methods

\* A client method builds the body and calls request with its action; the
\* arguments are JavaScript values, Undef for one the caller left out.

\* { database, collection, filter } and the like
Fields2(k1, v1, k2, v2) == (k1 :> v1) @@ (k2 :> v2)
Fields3(k1, v1, k2, v2, k3, v3) == (k1 :> v1) @@ (k2 :> v2) @@ (k3 :> v3)

\* `if (cond) body[key] = value`
SetIf(cond, body, key, value) ==
  IF cond THEN (key :> value) @@ body ELSE body

\* A parameter default: `filter = {}`, `upsert = false`
Default(x, d) == IF x = Undef THEN d ELSE x

\* A variant of findOne whose body has a dataSource field of its own.
findOneOwnDataSource(client, database, collection, filter, projection) ==
  LET body0 == Fields3("database", database, "collection", collection,
                       "filter", Default(filter, EmptyObj))
                 @@ ("dataSource" :> JStr("other"))
      body == SetIf(Truthy(projection), body0, "projection", projection)
  IN  request(client, "findOne", body)

findOne(client, database, collection, filter, projection) ==
  LET body0 == Fields3("database", database, "collection", collection,
                       "filter", Default(filter, EmptyObj))
      body == SetIf(Truthy(projection), body0, "projection", projection)
  IN  request(client, "findOne", body)

\* A variant of find that sends null for a projection or sort left out.
findWithPlaceholders(client, database, collection, filter, projection, sort, limit, skip) ==
  LET body0 == Fields3("database", database, "collection", collection,
                       "filter", Default(filter, EmptyObj))
      body1 == SetIf(TRUE, body0, "projection", Default(projection, JNull))
      body2 == SetIf(TRUE, body1, "sort", Default(sort, JNull))
      body3 == SetIf(limit # Undef, body2, "limit", limit)
      body == SetIf(skip # Undef, body3, "skip", skip)
  IN  request(client, "find", body)

\* A variant of find that tests skip for truthiness, as it does projection.
findSkipIfTruthy(client, database, collection, filter, projection, sort, limit, skip) ==
  LET body0 == Fields3("database", database, "collection", collection,
                       "filter", Default(filter, EmptyObj))
      body1 == SetIf(Truthy(projection), body0, "projection", projection)
      body2 == SetIf(Truthy(sort), body1, "sort", sort)
      body3 == SetIf(limit # Undef, body2, "limit", limit)
      body == SetIf(Truthy(skip), body3, "skip", skip)
  IN  request(client, "find", body)

find(client, database, collection, filter, projection, sort, limit, skip) ==
  LET body0 == Fields3("database", database, "collection", collection,
                       "filter", Default(filter, EmptyObj))
      body1 == SetIf(Truthy(projection), body0, "projection", projection)
      body2 == SetIf(Truthy(sort), body1, "sort", sort)
      body3 == SetIf(limit # Undef, body2, "limit", limit)
      body == SetIf(skip # Undef, body3, "skip", skip)
  IN  request(client, "find", body)

insertOne(client, database, collection, document) ==
  request(client, "insertOne",
          Fields3("database", database, "collection", collection,
                  "document", document))

insertMany(client, database, collection, documents) ==
  request(client, "insertMany",
          Fields3("database", database, "collection", collection,
                  "documents", documents))

\* The body of updateOne and updateMany: upsert is a key of it always.
UpdateBody(database, collection, filter, update, upsert) ==
  Fields3("database", database, "collection", collection, "filter", filter)
    @@ Fields2("update", update, "upsert", Default(upsert, JBool(FALSE)))

updateOne(client, database, collection, filter, update, upsert) ==
  request(client, "updateOne",
          UpdateBody(database, collection, filter, update, upsert))

updateMany(client, database, collection, filter, update, upsert) ==
  request(client, "updateMany",
          UpdateBody(database, collection, filter, update, upsert))

deleteOne(client, database, collection, filter) ==
  request(client, "deleteOne",
          Fields3("database", database, "collection", collection,
                  "filter", filter))

deleteMany(client, database, collection, filter) ==
  request(client, "deleteMany",
          Fields3("database", database, "collection", collection,
                  "filter", filter))

aggregate(client, database, collection, pipeline) ==
  request(client, "aggregate",
          Fields3("database", database, "collection", collection,
                  "pipeline", pipeline))

\* The nine operations of the MongoDbClient interface.
ClientOps ==
  {"findOne", "find", "insertOne", "insertMany", "updateOne", "updateMany",
   "deleteOne", "deleteMany", "aggregate"}

\* The arguments of one client call, by parameter name; a parameter the
\* caller leaves out is Undef.
NoArgs ==
  [filter |-> Undef, projection |-> Undef, sort |-> Undef, limit |-> Undef,
   skip |-> Undef, document |-> Undef, documents |-> Undef, update |-> Undef,
   upsert |-> Undef, pipeline |-> Undef]

\* client[op](database, collection, ...)
ClientCall(client, op, database, collection, a) ==
  CASE op = "findOne" ->
         findOne(client, database, collection, a.filter, a.projection)
    [] op = "find" ->
         find(client, database, collection, a.filter, a.projection, a.sort,
              a.limit, a.skip)
    [] op = "insertOne" -> insertOne(client, database, collection, a.document)
    [] op = "insertMany" -> insertMany(client, database, collection, a.documents)
    [] op = "updateOne" ->
         updateOne(client, database, collection, a.filter, a.update, a.upsert)
    [] op = "updateMany" ->
         updateMany(client, database, collection, a.filter, a.update, a.upsert)
    [] op = "deleteOne" -> deleteOne(client, database, collection, a.filter)
    [] op = "deleteMany" -> deleteMany(client, database, collection, a.filter)
    [] OTHER -> aggregate(client, database, collection, a.pipeline)

\* -------------------------------------------------------------- formatters

\* formatErrorForLogging: the structured details of an error.
formatErrorForLogging(error) ==
  JObj(("name" :> JStr(error.name)) @@ ("message" :> JStr(error.message))
       @@ (IF InstanceOfMongoDbApiError(error)
             THEN "statusCode" :> JNum(error.statusCode)
             ELSE <<>>)
       @@ (IF error.name = "RateLimitError"
             THEN "retryAfter" :> error.retryAfter
             ELSE <<>>))

\* A variant of the success envelope that sets isError to false.
formatResponseWithFlag(data) ==
  [content |-> <<[type |-> "text", text |-> JSONstringify(data)]>>,
   isError |-> FALSE]

\* The envelope of a success: no isError key.
formatResponse(data) ==
  [content |-> <<[type |-> "text", text |-> JSONstringify(data)]>>]

\* A variant that marks every MongoDbApiError as retryable.
ErrorTextAlwaysRetryable(error) ==
  IF InstanceOfMongoDbApiError(error)
    THEN "Error: " \o error.message \o " (retryable)"
    ELSE "Error: " \o error.message

\* The message formatError builds.
ErrorText(error) ==
  IF InstanceOfMongoDbApiError(error)
    THEN "Error: " \o error.message
           \o (IF error.retryable THEN " (retryable)" ELSE "")
    ELSE "Error: " \o error.message

\* The envelope of a failure.
formatError(error) ==
  [content |->
     <<[type |-> "text",
        text |-> JSONstringify(
                   JObj(Fields2("error", JStr(ErrorText(error)),
                                "details", formatErrorForLogging(error))))]>>,
   isError |-> TRUE]

\* ------------------------------------------------------------ tool handlers

DocumentTools ==
  {"mongodb_find_one", "mongodb_find", "mongodb_insert_one",
   "mongodb_insert_many", "mongodb_update_one", "mongodb_update_many",
   "mongodb_delete_one", "mongodb_delete_many"}
AggregationTools ==
  {"mongodb_aggregate", "mongodb_count", "mongodb_distinct", "mongodb_group_by"}

\* The arguments of a tool call after schema validation, by name; an optional
\* argument the caller leaves out is None.
NoToolArgs ==
  [database |-> "mydb", collection |-> "users", filter |-> None,
   projection |-> None, sort |-> None, limit |-> None, skip |-> None,
   document |-> None, documents |-> None, update |-> None, upsert |-> None,
   pipeline |-> None, field |-> None, groupBy |-> None, aggregations |-> None]

\* The schema defaults: limit 20 in mongodb_find, upsert false in the updates.
DEFAULT_LIMIT == 20
ZodDefaults(tool, raw) ==
  CASE tool = "mongodb_find" ->
         [raw EXCEPT !.limit = IF raw.limit = None THEN Some(DEFAULT_LIMIT) ELSE @]
    [] tool \in {"mongodb_update_one", "mongodb_update_many"} ->
         [raw EXCEPT !.upsert = IF raw.upsert = None THEN Some(FALSE) ELSE @]
    [] OTHER -> raw

\* `arg ? JSON.parse(arg) : otherwise`
ParseOr(arg, otherwise) ==
  IF TruthyStr(arg) THEN JSONparse(arg[1]) ELSE [ok |-> TRUE, v |-> otherwise]

\* A variant that reads a text that is no JSON as the empty object.
ParseArgLenient(arg) ==
  IF JSONparse(arg[1]).ok THEN JSONparse(arg[1]) ELSE [ok |-> TRUE, v |-> EmptyObj]

\* `JSON.parse(arg)` of a required string argument
ParseArg(arg) == JSONparse(arg[1])

\* An optional number or boolean argument as a JavaScript value
OptNum(o) == IF o = None THEN Undef ELSE JNum(o[1])
OptBool(o) == IF o = None THEN Undef ELSE JBool(o[1])

\* `${x}` of a JavaScript value
TemplateStr(x) ==
  CASE x.t = "string" -> x.v
    [] x.t = "number" -> ToString(x.v)
    [] x.t = "boolean" -> IF x.v THEN "true" ELSE "false"
    [] x.t = "array" -> "[array]"
    [] x.t = "object" -> "[object Object]"
    [] OTHER -> x.t

Throw(error) == [kind |-> "throw", error |-> error]
Call(op, a) == [kind |-> "call", op |-> op, a |-> a]
Return(payload) == [kind |-> "return", payload |-> payload]

\* A variant of the $group stage that counts whatever was asked for.
GroupStageAlwaysCount(groupBy, aggObj) ==
  LET g0 == "_id" :> JStr("$" \o groupBy)
      g1 == SetIf(TRUE, g0, "count", JObj("$sum" :> JNum(1)))
      g2 == SetIf(Truthy(Get(aggObj, "sum")), g1, "total",
                  JObj("$sum" :> JStr("$" \o TemplateStr(Get(aggObj, "sum")))))
      g3 == SetIf(Truthy(Get(aggObj, "avg")), g2, "average",
                  JObj("$avg" :> JStr("$" \o TemplateStr(Get(aggObj, "avg")))))
      g4 == SetIf(Truthy(Get(aggObj, "min")), g3, "min",
                  JObj("$min" :> JStr("$" \o TemplateStr(Get(aggObj, "min")))))
      g5 == SetIf(Truthy(Get(aggObj, "max")), g4, "max",
                  JObj("$max" :> JStr("$" \o TemplateStr(Get(aggObj, "max")))))
  IN  JObj(g5)

\* The $group stage of mongodb_group_by.
GroupStage(groupBy, aggObj) ==
  LET g0 == "_id" :> JStr("$" \o groupBy)
      g1 == SetIf(Truthy(Get(aggObj, "count")), g0, "count",
                  JObj("$sum" :> JNum(1)))
      g2 == SetIf(Truthy(Get(aggObj, "sum")), g1, "total",
                  JObj("$sum" :> JStr("$" \o TemplateStr(Get(aggObj, "sum")))))
      g3 == SetIf(Truthy(Get(aggObj, "avg")), g2, "average",
                  JObj("$avg" :> JStr("$" \o TemplateStr(Get(aggObj, "avg")))))
      g4 == SetIf(Truthy(Get(aggObj, "min")), g3, "min",
                  JObj("$min" :> JStr("$" \o TemplateStr(Get(aggObj, "min")))))
      g5 == SetIf(Truthy(Get(aggObj, "max")), g4, "max",
                  JObj("$max" :> JStr("$" \o TemplateStr(Get(aggObj, "max")))))
  IN  JObj(g5)

\* A variant of the count pipeline without its $match stage.
CountPipelineNoMatch(filterObj) == JArr(<<JObj("$count" :> JStr("count"))>>)

\* [{ $match: filterObj }, { $count: 'count' }]
CountPipeline(filterObj) ==
  JArr(<<JObj("$match" :> filterObj), JObj("$count" :> JStr("count"))>>)

\* A handler from its start to its client call: the arguments are parsed in
\* the order written, and the first error thrown ends it.
HandlerCall(tool, args) ==
  CASE tool = "mongodb_find_one" ->
         LET f == ParseOr(args.filter, EmptyObj)
             p == ParseOr(args.projection, Undef)
         IN  IF ~f.ok \/ ~p.ok THEN Throw(JsonSyntaxError)
             ELSE Call("findOne",
                       [NoArgs EXCEPT !.filter = f.v, !.projection = p.v])
    [] tool = "mongodb_find" ->
         LET f == ParseOr(args.filter, EmptyObj)
             p == ParseOr(args.projection, Undef)
             s == ParseOr(args.sort, Undef)
         IN  IF ~f.ok \/ ~p.ok \/ ~s.ok THEN Throw(JsonSyntaxError)
             ELSE Call("find",
                       [NoArgs EXCEPT !.filter = f.v, !.projection = p.v,
                                      !.sort = s.v, !.limit = OptNum(args.limit),
                                      !.skip = OptNum(args.skip)])
    [] tool = "mongodb_insert_one" ->
         LET d == ParseArg(args.document)
         IN  IF ~d.ok THEN Throw(JsonSyntaxError)
             ELSE Call("insertOne", [NoArgs EXCEPT !.document = d.v])
    [] tool = "mongodb_insert_many" ->
         LET d == ParseArg(args.documents)
         IN  IF ~d.ok THEN Throw(JsonSyntaxError)
             ELSE IF ~IsArray(d.v) THEN Throw(Error("Documents must be an array"))
             ELSE Call("insertMany", [NoArgs EXCEPT !.documents = d.v])
    [] tool \in {"mongodb_update_one", "mongodb_update_many"} ->
         LET f == ParseArg(args.filter)
             u == ParseArg(args.update)
         IN  IF ~f.ok \/ ~u.ok THEN Throw(JsonSyntaxError)
             ELSE Call(IF tool = "mongodb_update_one" THEN "updateOne"
                                                      ELSE "updateMany",
                       [NoArgs EXCEPT !.filter = f.v, !.update = u.v,
                                      !.upsert = OptBool(args.upsert)])
    [] tool \in {"mongodb_delete_one", "mongodb_delete_many"} ->
         LET f == ParseArg(args.filter)
         IN  IF ~f.ok THEN Throw(JsonSyntaxError)
             ELSE Call(IF tool = "mongodb_delete_one" THEN "deleteOne"
                                                      ELSE "deleteMany",
                       [NoArgs EXCEPT !.filter = f.v])
    [] tool = "mongodb_aggregate" ->
         LET p == ParseArg(args.pipeline)
         IN  IF ~p.ok THEN Throw(JsonSyntaxError)
             ELSE IF ~IsArray(p.v)
               THEN Throw(Error("Pipeline must be an array of stage objects"))
             ELSE Call("aggregate", [NoArgs EXCEPT !.pipeline = p.v])
    [] tool = "mongodb_count" ->
         LET f == ParseOr(args.filter, EmptyObj)
         IN  IF ~f.ok THEN Throw(JsonSyntaxError)
             ELSE Call("aggregate", [NoArgs EXCEPT !.pipeline = CountPipeline(f.v)])
    [] tool = "mongodb_distinct" ->
         LET f == ParseOr(args.filter, EmptyObj)
         IN  IF ~f.ok THEN Throw(JsonSyntaxError)
             ELSE Call("aggregate",
                       [NoArgs EXCEPT !.pipeline =
                          JArr(<<JObj("$match" :> f.v),
                                 JObj("$group" :>
                                        JObj("_id" :> JStr("$" \o args.field[1]))),
                                 JObj("$sort" :> JObj("_id" :> JNum(1)))>>)])
    [] OTHER ->
         LET f == ParseOr(args.filter, EmptyObj)
             g == ParseOr(args.aggregations, JObj("count" :> JBool(TRUE)))
         IN  IF ~f.ok \/ ~g.ok THEN Throw(JsonSyntaxError)
             ELSE IF ~CanRead(g.v) THEN Throw(NullReadError)
             ELSE Call("aggregate",
                       [NoArgs EXCEPT !.pipeline =
                          JArr(<<JObj("$match" :> f.v),
                                 JObj("$group" :> GroupStage(args.groupBy[1], g.v)),
                                 JObj("$sort" :>
                                        JObj(Fields2("count", JNum(0 - 1),
                                                     "_id", JNum(1))))>>)])

\* `x > 0` of a JavaScript value (undefined and null compare false)
GreaterThanZero(x) ==
  CASE x.t = "number" -> x.v > 0
    [] x.t = "boolean" -> x.v
    [] OTHER -> FALSE

\* `x.length`
Length(x) == IF x.t = "array" THEN JNum(Len(x.v)) ELSE Undef

\* The error of reading a property of x when x is null or undefined.
ReadError(x) == IF x.t = "null" THEN NullReadError ELSE UndefinedReadError

\* A message with every document readable, or the error of the first that is not.
AllReadable(docs) == \A i \in DOMAIN docs : CanRead(docs[i])
FirstUnreadable(docs) ==
  docs[CHOOSE i \in DOMAIN docs :
         ~CanRead(docs[i]) /\ \A j \in 1..(i - 1) : CanRead(docs[j])]

\* { [groupBy]: doc._id, ...entries of doc other than _id }
RenameId(groupBy, doc) ==
  JObj((IF doc.t = "object"
          THEN [k \in DOMAIN doc.v \ {"_id"} |-> doc.v[k]]
          ELSE <<>>)
       @@ (groupBy :> Get(doc, "_id")))

\* A variant of the filter that keeps every value.
KeepAll(v) == TRUE

\* `(v) => v !== null`
NotNull(v) == v # JNull

\* A variant of the message choice that looks at upsertedId first.
UpdateOneMessageUpsertFirst(result) ==
  IF Truthy(Get(result, "upsertedId")) THEN "Document upserted successfully"
  ELSE IF GreaterThanZero(Get(result, "modifiedCount"))
    THEN "Document updated successfully"
    ELSE "No documents modified"

\* The message of mongodb_update_one.
UpdateOneMessage(result) ==
  IF GreaterThanZero(Get(result, "modifiedCount"))
    THEN "Document updated successfully"
    ELSE IF Truthy(Get(result, "upsertedId"))
      THEN "Document upserted successfully"
      ELSE "No documents modified"

\* A handler from the result of its client call to the payload it formats.
HandlerResult(tool, args, result) ==
  CASE tool \in {"mongodb_find_one", "mongodb_find"} -> Return(result)
    [] ~CanRead(result) -> Throw(ReadError(result))
    [] tool = "mongodb_insert_one" ->
         Return(JObj(Fields3("success", JBool(TRUE),
                             "message", JStr("Document inserted successfully"),
                             "insertedId", Get(result, "insertedId"))))
    [] tool = "mongodb_insert_many" ->
         LET ids == Get(result, "insertedIds")
         IN  IF ~CanRead(ids) THEN Throw(ReadError(ids))
             ELSE Return(JObj(Fields3(
                    "success", JBool(TRUE),
                    "message", JStr(TemplateStr(Length(ids))
                                      \o " documents inserted successfully"),
                    "insertedIds", ids)))
    [] tool = "mongodb_update_one" ->
         Return(JObj(Fields3(
                  "success", JBool(TRUE),
                  "message", JStr(UpdateOneMessage(result)),
                  "matchedCount", Get(result, "matchedCount"))
                @@ Fields2("modifiedCount", Get(result, "modifiedCount"),
                           "upsertedId", Get(result, "upsertedId"))))
    [] tool = "mongodb_update_many" ->
         Return(JObj(Fields3(
                  "success", JBool(TRUE),
                  "message", JStr(TemplateStr(Get(result, "modifiedCount"))
                                    \o " documents updated"),
                  "matchedCount", Get(result, "matchedCount"))
                @@ Fields2("modifiedCount", Get(result, "modifiedCount"),
                           "upsertedId", Get(result, "upsertedId"))))
    [] tool = "mongodb_delete_one" ->
         Return(JObj(Fields3(
                  "success", JBool(TRUE),
                  "message",
                    JStr(IF GreaterThanZero(Get(result, "deletedCount"))
                           THEN "Document deleted successfully"
                           ELSE "No document found to delete"),
                  "deletedCount", Get(result, "deletedCount"))))
    [] tool = "mongodb_delete_many" ->
         Return(JObj(Fields3(
                  "success", JBool(TRUE),
                  "message", JStr(TemplateStr(Get(result, "deletedCount"))
                                    \o " documents deleted"),
                  "deletedCount", Get(result, "deletedCount"))))
    [] ~CanRead(Get(result, "documents")) ->
         Throw(ReadError(Get(result, "documents")))
    [] tool = "mongodb_aggregate" ->
         Return(JObj(Fields2("documents", Get(result, "documents"),
                             "count", Length(Get(result, "documents")))))
    [] tool = "mongodb_count" ->
         LET docs == Get(result, "documents")
             filterObj == ParseOr(args.filter, EmptyObj).v
         IN  IF GreaterThanZero(Length(docs))
               THEN IF ~CanRead(docs.v[1]) THEN Throw(ReadError(docs.v[1]))
                    ELSE Return(JObj(Fields2("count", Get(docs.v[1], "count"),
                                             "filter", filterObj)))
               ELSE Return(JObj(Fields2("count", JNum(0), "filter", filterObj)))
    [] ~IsArray(Get(result, "documents")) ->
         Throw(TypeError("result.documents.map is not a function"))
    [] ~AllReadable(Get(result, "documents").v) ->
         Throw(ReadError(FirstUnreadable(Get(result, "documents").v)))
    [] tool = "mongodb_distinct" ->
         LET docs == Get(result, "documents").v
             ids == [i \in DOMAIN docs |-> Get(docs[i], "_id")]
             values == SelectSeq(ids, NotNull)
         IN  Return(JObj(Fields3("field", JStr(args.field[1]),
                                 "values", JArr(values),
                                 "count", JNum(Len(values)))))
    [] OTHER ->
         LET docs == Get(result, "documents").v
             formatted == [i \in DOMAIN docs |-> RenameId(args.groupBy[1], docs[i])]
         IN  Return(JObj(Fields3("groupedBy", JStr(args.groupBy[1]),
                                 "results", JArr(formatted),
                                 "count", JNum(Len(formatted)))))

\* ---------------------------------------------------------- testConnection

ProbeBody(database, collection) ==
  Fields3("database", JStr(database), "collection", JStr(collection),
          "filter", EmptyObj) @@ ("limit" :> JNum(1))

FirstProbe(client) ==
  request(client, "find", ProbeBody("admin", "system.version"))
SecondProbe(client) ==
  request(client, "find", ProbeBody("test", "__connection_test__"))

ConnectionResult(connected, message) ==
  JObj(Fields2("connected", JBool(connected), "message", JStr(message)))

ProbeSucceeded(client) ==
  ConnectionResult(TRUE,
    "Successfully connected to MongoDB Atlas (dataSource: "
      \o Interpolate(client.credentials.dataSource) \o ")")

\* A variant that takes any API error as evidence of a working connection.
SecondProbeFailedAnyApiError(client, secondError) ==
  IF InstanceOfMongoDbApiError(secondError)
    THEN ConnectionResult(TRUE,
           "Connected to MongoDB Atlas (dataSource: "
             \o Interpolate(client.credentials.dataSource) \o ")")
    ELSE ConnectionResult(FALSE, secondError.message)

\* A variant that reports every failure of the second probe as no connection.
SecondProbeFailedStrict(client, secondError) ==
  IF InstanceOfAuthenticationError(secondError)
    THEN ConnectionResult(FALSE,
           "Authentication failed. Check your API key and App ID.")
    ELSE ConnectionResult(FALSE, secondError.message)

\* A variant that reports a fixed text for an error that is no API error.
SecondProbeFailedNoMessage(client, secondError) ==
  IF InstanceOfAuthenticationError(secondError)
    THEN ConnectionResult(FALSE,
           "Authentication failed. Check your API key and App ID.")
    ELSE IF InstanceOfMongoDbApiError(secondError)
              /\ secondError.statusCode # 401
      THEN ConnectionResult(TRUE,
             "Connected to MongoDB Atlas (dataSource: "
               \o Interpolate(client.credentials.dataSource) \o ")")
      ELSE ConnectionResult(FALSE, "Connection failed")

\* The catch of the second probe's error.
SecondProbeFailed(client, secondError) ==
  IF InstanceOfAuthenticationError(secondError)
    THEN ConnectionResult(FALSE,
           "Authentication failed. Check your API key and App ID.")
    ELSE IF InstanceOfMongoDbApiError(secondError)
              /\ secondError.statusCode # 401
      THEN ConnectionResult(TRUE,
             "Connected to MongoDB Atlas (dataSource: "
               \o Interpolate(client.credentials.dataSource) \o ")")
      ELSE ConnectionResult(FALSE, secondError.message)

\* ------------------------------------------------- one tool invocation

\* What an invocation ends with: the envelope its handler returns, with the
\* error its catch block caught, if any; or an error that left the handler.
Returned(envelope) ==
  [kind |-> "envelope", envelope |-> envelope, thrown |-> None]
Escaped(error) == [kind |-> "escaped", error |-> error]

\* A handler without the catch: the error leaves it.
AtBoundaryUncaught(error) == Escaped(error)

\* `catch (error) { return formatError(error); }`
AtBoundary(error) ==
  [kind |-> "envelope", envelope |-> formatError(error), thrown |-> Some(error)]

\* testConnection returning its result.
Resolve(result) == [kind |-> "return", value |-> result]

\* A variant of the handler that flags a result that reports no connection.
ConnectionEnvelopeFlagged(result) ==
  IF Get(result, "connected") = JBool(FALSE)
    THEN [kind |-> "envelope",
          envelope |-> [content |-> <<[type |-> "text",
                                       text |-> JSONstringify(result)]>>,
                        isError |-> TRUE],
          thrown |-> None]
    ELSE Returned([content |-> <<[type |-> "text",
                                  text |-> JSONstringify(result)]>>])

\* The handler of mongodb_test_connection returning testConnection's value.
ConnectionEnvelope(result) ==
  Returned([content |-> <<[type |-> "text", text |-> JSONstringify(result)]>>])

\* The catch of the handler of mongodb_test_connection.
ConnectionCatch(error) ==
  [kind |-> "envelope",
   envelope |-> [content |-> <<[type |-> "text",
                                text |-> JStr("Connection failed: "
                                                \o error.message)]>>,
                 isError |-> TRUE],
   thrown |-> Some(error)]

\* A step of an invocation runs to its next await of fetch, or to its end.
\* op and a are the client method called and its arguments ("none" before
\* any call, "request" for testConnection's own use of request), probe is
\* testConnection's attempt, settled is how the client call ended.
Await(req, op, a, probe) ==
  [kind |-> "await", req |-> req, op |-> op, a |-> a, probe |-> probe,
   settled |-> None]
Done(outcome, op, a, probe, settled) ==
  [kind |-> "done", outcome |-> outcome, op |-> op, a |-> a, probe |-> probe,
   settled |-> settled]

\* A variant that gives up when the first probe fails.
AfterFirstProbeGiveUp(client) ==
  Done(Resolve(ConnectionResult(FALSE, "Connection failed")),
       "request", NoArgs, 1, None)

\* testConnection from the failure of its first probe.
AfterFirstProbe(client) ==
  LET q == SecondProbe(client)
  IN  IF q.kind = "fetch" THEN Await(q.req, "request", NoArgs, 2)
      ELSE Done(Resolve(SecondProbeFailed(client, q.error)),
                "request", NoArgs, 2, Some(q))

\* testConnection from its call.
TestConnectionStart(client) ==
  LET q == FirstProbe(client)
  IN  IF q.kind = "fetch" THEN Await(q.req, "request", NoArgs, 1)
      ELSE AfterFirstProbe(client)

\* testConnection from the settling of the probe it awaits.
TestConnectionResume(client, c, s) ==
  IF s.kind = "return"
    THEN Done(Resolve(ProbeSucceeded(client)), c.op, c.a, c.probe, Some(s))
    ELSE IF c.probe = 1 THEN AfterFirstProbe(client)
    ELSE Done(Resolve(SecondProbeFailed(client, s.error)),
              c.op, c.a, 2, Some(s))

\* The handler of mongodb_test_connection around a step of testConnection:
\* its try returns the envelope of the result, its catch the failure text.
ConnectionHandler(step) ==
  IF step.kind = "done"
    THEN [step EXCEPT !.outcome = IF @.kind = "return"
                                    THEN ConnectionEnvelope(@.value)
                                    ELSE ConnectionCatch(@.error)]
    ELSE step

\* The step from the call of the tool.
ToolStart(client, tool, args) ==
  IF tool = "mongodb_test_connection"
    THEN ConnectionHandler(TestConnectionStart(client))
    ELSE LET h == HandlerCall(tool, args)
         IN  IF h.kind = "throw"
               THEN Done(AtBoundary(h.error), "none", NoArgs, 0, None)
               ELSE LET q == ClientCall(client, h.op, JStr(args.database),
                                        JStr(args.collection), h.a)
                    IN  IF q.kind = "fetch" THEN Await(q.req, h.op, h.a, 0)
                        ELSE Done(AtBoundary(q.error), h.op, h.a, 0, Some(q))

\* The step from a call of a client method by a caller that holds the client.
DirectStart(client, op, database, collection, a) ==
  LET q == ClientCall(client, op, JStr(database), JStr(collection), a)
  IN  IF q.kind = "fetch" THEN Await(q.req, op, a, 0)
      ELSE Done(q, op, a, 0, Some(q))

\* The step from the response to the request the invocation awaits.  request
\* settles every response by returning or throwing.
ToolResume(client, c, response) ==
  LET s == requestSettle(response)
  IN  IF s.kind = "refetch" THEN Await(c.req[1], c.op, c.a, c.probe)
      ELSE IF c.probe > 0
        THEN IF c.tool = "none" THEN TestConnectionResume(client, c, s)
             ELSE ConnectionHandler(TestConnectionResume(client, c, s))
      ELSE IF c.tool = "none" THEN Done(s, c.op, c.a, 0, Some(s))
      ELSE IF s.kind = "throw"
        THEN Done(AtBoundary(s.error), c.op, c.a, 0, Some(s))
        ELSE LET h == HandlerResult(c.tool, c.args, s.value)
             IN  IF h.kind = "throw"
                   THEN Done(AtBoundary(h.error), c.op, c.a, 0, Some(s))
                   ELSE Done(Returned(formatResponse(h.payload)),
                             c.op, c.a, 0, Some(s))

\* ------------------------------------------------------------------ worker

Reqs == 1..MaxReqs

VARIABLES
  pc,            \* per inbound request: idle, responded, serving, awaiting, done
  inbound,       \* the inbound HTTP request, once received
  httpResponse,  \* the response fetch itself returns, without a server
  server,        \* the server built for the request: its registered tools
  client,        \* the client the server's handlers (or a direct caller) hold
  call,          \* the tool invocation, or direct client call, of the request
  sent,          \* the outbound requests the invocation has issued, in order
  replies,       \* the responses to them, in order
  outcome        \* what the invocation ended with

vars ==
  <<pc, inbound, httpResponse, server, client, call, sent, replies, outcome>>

RegisteredTools ==
  DocumentTools \cup AggregationTools \cup {"mongodb_test_connection"}

\* A variant that keeps one client for the process: the first one built.
createStatelessServerCached(credentials) ==
  [client |-> IF \E q \in Reqs : client[q] # None
                THEN client[CHOOSE q \in Reqs : client[q] # None][1]
                ELSE createMongoDbClient(credentials),
   tools |-> RegisteredTools]

\* createStatelessServer: a new server whose handlers close over a new client
\* of these credentials.
createStatelessServer(credentials) ==
  [client |-> createMongoDbClient(credentials), tools |-> RegisteredTools]

NoCall ==
  [tool |-> "none", args |-> NoToolArgs, op |-> "none", a |-> NoArgs,
   probe |-> 0, req |-> None, settled |-> None]

Init ==
  /\ pc = [r \in Reqs |-> "idle"]
  /\ inbound = [r \in Reqs |-> None]
  /\ httpResponse = [r \in Reqs |-> None]
  /\ server = [r \in Reqs |-> None]
  /\ client = [r \in Reqs |-> None]
  /\ call = [r \in Reqs |-> NoCall]
  /\ sent = [r \in Reqs |-> <<>>]
  /\ replies = [r \in Reqs |-> <<>>]
  /\ outcome = [r \in Reqs |-> None]

\* The routes of fetch that build no server.
StaticResponse(incoming) ==
  CASE incoming.path = "/health" -> [status |-> 200, message |-> "ok"]
    [] incoming.path = "/sse" ->
         [status |-> 501,
          message |-> "SSE endpoint requires Durable Objects. Enable in wrangler.jsonc."]
    [] OTHER -> [status |-> 200, message |-> "MongoDB Atlas Data API MCP Server"]

\* The worker's fetch handler, up to handing the request to the MCP handler.
Fetch(r, incoming) ==
  /\ pc[r] = "idle"
  /\ inbound' = [inbound EXCEPT ![r] = Some(incoming)]
  /\ IF incoming.path = "/mcp" /\ incoming.method = "POST"
       THEN LET credentials == parseTenantCredentials(incoming)
                invalid == validateCredentials(credentials)
            IN  IF invalid # None
                  THEN /\ httpResponse' =
                            [httpResponse EXCEPT ![r] =
                               Some([status |-> 401, message |-> invalid[1].message])]
                       /\ pc' = [pc EXCEPT ![r] = "responded"]
                       /\ UNCHANGED <<server, client>>
                  ELSE LET built == createStatelessServer(credentials)
                       IN  /\ server' = [server EXCEPT ![r] = Some(built.tools)]
                           /\ client' = [client EXCEPT ![r] = Some(built.client)]
                           /\ pc' = [pc EXCEPT ![r] = "serving"]
                           /\ UNCHANGED httpResponse
       ELSE /\ httpResponse' = [httpResponse EXCEPT ![r] = Some(StaticResponse(incoming))]
            /\ pc' = [pc EXCEPT ![r] = "responded"]
            /\ UNCHANGED <<server, client>>
  /\ UNCHANGED <<call, sent, replies, outcome>>

\* Applying a step of the invocation of request r.
Apply(r, step, tool, args) ==
  /\ call' = [call EXCEPT ![r] =
                [tool |-> tool, args |-> args, op |-> step.op, a |-> step.a,
                 probe |-> step.probe,
                 req |-> IF step.kind = "await" THEN Some(step.req) ELSE None,
                 settled |-> step.settled]]
  /\ IF step.kind = "await"
       THEN /\ sent' = [sent EXCEPT ![r] = Append(@, step.req)]
            /\ pc' = [pc EXCEPT ![r] = "awaiting"]
            /\ UNCHANGED outcome
       ELSE /\ outcome' = [outcome EXCEPT ![r] = Some(step.outcome)]
            /\ pc' = [pc EXCEPT ![r] = "done"]
            /\ UNCHANGED sent

\* The MCP handler calls a registered tool with validated arguments.
ToolCall(r, tool, raw) ==
  /\ pc[r] = "serving"
  /\ tool \in server[r][1]
  /\ LET args == ZodDefaults(tool, raw)
     IN  Apply(r, ToolStart(client[r][1], tool, args), tool, args)
  /\ UNCHANGED <<inbound, httpResponse, server, client, replies>>

\* A caller builds a client from credentials and calls one of its methods.
ClientInvoke(r, credentials, op, database, collection, a) ==
  /\ pc[r] = "idle"
  /\ client' = [client EXCEPT ![r] = Some(createMongoDbClient(credentials))]
  /\ Apply(r, DirectStart(createMongoDbClient(credentials), op, database,
                          collection, a),
           "none", NoToolArgs)
  /\ UNCHANGED <<inbound, httpResponse, server, replies>>

\* A caller builds a client from credentials and calls its testConnection.
ClientTestConnection(r, credentials) ==
  /\ pc[r] = "idle"
  /\ client' = [client EXCEPT ![r] = Some(createMongoDbClient(credentials))]
  /\ Apply(r, TestConnectionStart(createMongoDbClient(credentials)),
           "none", NoToolArgs)
  /\ UNCHANGED <<inbound, httpResponse, server, replies>>

\* The Data API answers the outstanding request, or the transport fails.
Respond(r, response) ==
  /\ pc[r] = "awaiting"
  /\ replies' = [replies EXCEPT ![r] = Append(@, response)]
  /\ Apply(r, ToolResume(client[r][1], call[r], response),
           call[r].tool, call[r].args)
  /\ UNCHANGED <<inbound, httpResponse, server, client>>

\* ------------------------------------------------------------------ inputs

\* The headers of an inbound request, from the optional value of each.
HeaderMap(apiKey, appId, dataSource, baseUrl) ==
  (IF apiKey # None THEN HeaderApiKey :> apiKey[1] ELSE <<>>)
    @@ (IF appId # None THEN HeaderAppId :> appId[1] ELSE <<>>)
    @@ (IF dataSource # None THEN HeaderDataSource :> dataSource[1] ELSE <<>>)
    @@ (IF baseUrl # None THEN HeaderBaseUrl :> baseUrl[1] ELSE <<>>)

McpPost(headers) == [path |-> "/mcp", method |-> "POST", headers |-> headers]

\* Inbound requests of one tenant with each header absent, empty or set, and
\* requests to the other routes.
InboundRequests ==
  {McpPost(HeaderMap(k, a, d, b)) :
     k \in {None, Some(""), Some("key-A")},
     a \in {None, Some(""), Some("app-A")},
     d \in {None, Some(""), Some("Cluster0")},
     b \in {None, Some(""), Some("https://gw.example/v1")}}
  \cup {[path |-> "/health", method |-> "GET", headers |-> <<>>],
        [path |-> "/mcp", method |-> "GET", headers |-> <<>>],
        [path |-> "/sse", method |-> "GET", headers |-> <<>>],
        [path |-> "/", method |-> "GET", headers |-> <<>>]}

\* JSON-string arguments: left out, empty, malformed, and well-formed texts.
OptJson == {None, Some(""), Some("{bad"), Some("null"), Some("{\"a\":1}")}
ReqJson ==
  {Some(""), Some("{bad"), Some("null"), Some("{\"a\":1}"), Some("[{\"a\":1}]")}

\* The argument maps a tool is called with.
ToolArgs(tool) ==
  CASE tool = "mongodb_find_one" ->
         {[NoToolArgs EXCEPT !.filter = f, !.projection = p] :
            f \in OptJson, p \in OptJson}
    [] tool = "mongodb_find" ->
         {[NoToolArgs EXCEPT !.filter = f, !.projection = p, !.sort = s,
                             !.limit = l, !.skip = k] :
            f \in OptJson, p \in OptJson, s \in OptJson,
            l \in {None, Some(1)}, k \in {None, Some(0), Some(5)}}
    [] tool = "mongodb_insert_one" ->
         {[NoToolArgs EXCEPT !.document = d] : d \in ReqJson}
    [] tool = "mongodb_insert_many" ->
         {[NoToolArgs EXCEPT !.documents = d] : d \in ReqJson}
    [] tool \in {"mongodb_update_one", "mongodb_update_many"} ->
         {[NoToolArgs EXCEPT !.filter = f, !.update = u, !.upsert = x] :
            f \in ReqJson, u \in ReqJson, x \in {None, Some(FALSE), Some(TRUE)}}
    [] tool \in {"mongodb_delete_one", "mongodb_delete_many"} ->
         {[NoToolArgs EXCEPT !.filter = f] : f \in ReqJson}
    [] tool = "mongodb_aggregate" ->
         {[NoToolArgs EXCEPT !.pipeline = p] : p \in ReqJson}
    [] tool = "mongodb_count" ->
         {[NoToolArgs EXCEPT !.filter = f] : f \in OptJson}
    [] tool = "mongodb_distinct" ->
         {[NoToolArgs EXCEPT !.field = Some("status"), !.filter = f] :
            f \in OptJson}
    [] tool = "mongodb_group_by" ->
         {[NoToolArgs EXCEPT !.groupBy = Some(b), !.filter = f,
                             !.aggregations = g] :
            b \in {"region", "count"}, f \in OptJson,
            g \in OptJson \cup
                   {Some("{\"count\":true,\"sum\":\"amount\"}"),
                    Some("{\"avg\":\"price\",\"min\":\"price\",\"max\":\"price\"}")}}
    [] OTHER -> {NoToolArgs}

\* Retry-After header values, as characters: absent, empty, a number of
\* seconds, text that is no number (an HTTP date starts with a letter), a
\* number followed by text, a negative number.
RetryAfterHeaders ==
  {None, Some(<<>>), Some(<<"1", "2", "0">>), Some(<<"W", "e", "d">>),
   Some(<<"1", "2", "x">>), Some(<<"-", "1">>)}

\* Bodies of error responses: not JSON, JSON that is no object, and objects
\* with and without the error and message fields.
ErrorBodies ==
  {"", "Not Found", "null", "{}", "{\"error\":\"E\"}", "{\"message\":\"M\"}",
   "{\"error\":\"E\",\"message\":\"M\"}", "{\"error\":\"\",\"message\":\"M\"}"}

\* Bodies of 2xx responses to an action.
SuccessBodies(action) ==
  {"", "null", "{}"} \cup
  (CASE action = "findOne" -> {"{\"document\":{\"a\":1}}", "{\"document\":null}"}
     [] action = "find" -> {"{\"documents\":[{\"a\":1}]}", "{\"documents\":[]}"}
     [] action = "insertOne" -> {"{\"insertedId\":\"id1\"}"}
     [] action = "insertMany" -> {"{\"insertedIds\":[\"id1\",\"id2\"]}"}
     [] action \in {"updateOne", "updateMany"} ->
          {"{\"matchedCount\":1,\"modifiedCount\":1}",
           "{\"matchedCount\":1,\"modifiedCount\":0}",
           "{\"matchedCount\":0,\"modifiedCount\":0,\"upsertedId\":\"x\"}",
           "{\"matchedCount\":1,\"modifiedCount\":1,\"upsertedId\":\"x\"}"}
     [] action \in {"deleteOne", "deleteMany"} ->
          {"{\"deletedCount\":1}", "{\"deletedCount\":0}"}
     [] OTHER ->
          {"{\"documents\":[]}", "{\"documents\":[{\"count\":3}]}",
           "{\"documents\":[{\"_id\":\"a\",\"count\":2},{\"_id\":null,\"count\":1}]}",
           "{\"documents\":[{\"_id\":\"b\"},{\"_id\":null},{\"_id\":\"a\"}]}",
           "{\"documents\":[null]}"})

HttpResponse(status, retryAfter, body) ==
  [kind |-> "response", status |-> status, retryAfter |-> retryAfter,
   body |-> body]

\* What may come back for a request of an action.
Responses(action) ==
  {[kind |-> "failed"]}
  \cup {HttpResponse(429, h, "") : h \in RetryAfterHeaders}
  \cup {HttpResponse(st, None, b) : st \in {401, 403}, b \in {"", "{\"error\":\"E\"}"}}
  \cup {HttpResponse(st, None, b) : st \in {404, 500}, b \in ErrorBodies}
  \cup {HttpResponse(st, None, b) : st \in {200, 201}, b \in SuccessBodies(action)}

\* The action of the request an invocation awaits.
ActionOf(c) == IF c.op = "request" THEN "find" ELSE c.op

\* Credentials a direct caller may build a client from.
ClientCredentials ==
  {[apiKey |-> k, appId |-> Some("app-A"), dataSource |-> Some("Cluster0"),
    baseUrl |-> b] :
     k \in {None, Some(""), Some("key-A")},
     b \in {None, Some("https://gw.example/v1")}}

\* The arguments a direct caller may pass to a client method.
ClientArgs(op) ==
  CASE op = "findOne" ->
         {[NoArgs EXCEPT !.filter = f, !.projection = p] :
            f \in {Undef, EmptyObj, DocA}, p \in {Undef, JNull, DocA}}
    [] op = "find" ->
         {[NoArgs EXCEPT !.filter = f, !.projection = p, !.sort = s,
                         !.limit = l, !.skip = k] :
            f \in {Undef, DocA}, p \in {Undef, JNull, DocA},
            s \in {Undef, JNull, DocA}, l \in {Undef, JNum(0), JNum(1)},
            k \in {Undef, JNum(0), JNum(5)}}
    [] op = "insertOne" -> {[NoArgs EXCEPT !.document = DocA]}
    [] op = "insertMany" -> {[NoArgs EXCEPT !.documents = JArr(<<DocA>>)]}
    [] op \in {"updateOne", "updateMany"} ->
         {[NoArgs EXCEPT !.filter = DocA, !.update = DocA, !.upsert = x] :
            x \in {Undef, JBool(FALSE), JBool(TRUE)}}
    [] op \in {"deleteOne", "deleteMany"} ->
         {[NoArgs EXCEPT !.filter = f] : f \in {EmptyObj, DocA}}
    [] OTHER ->
         {[NoArgs EXCEPT !.pipeline = p] : p \in {JArr(<<>>), JArr(<<DocA>>)}}

\* Two tenants, one with a base URL of its own.
TenantRequests ==
  {McpPost(HeaderMap(Some("key-A"), Some("app-A"), Some("Cluster0"), None)),
   McpPost(HeaderMap(Some("key-B"), Some("app-B"), Some("Cluster1"),
                     Some("https://gw.example/v1")))}

\* One inbound request at a time.
Sequential == {1}

\* The server: one inbound request, any tool, any arguments, any response.
Next ==
  \E r \in Sequential :
    \/ \E incoming \in InboundRequests : Fetch(r, incoming)
    \/ \E tool \in RegisteredTools : \E raw \in ToolArgs(tool) : ToolCall(r, tool, raw)
    \/ \E response \in Responses(ActionOf(call[r])) : Respond(r, response)

Spec == Init /\ [][Next]_vars

\* The client alone: a caller builds it and calls one method, testConnection
\* included.
NextClient ==
  \E r \in Sequential :
    \/ \E credentials \in ClientCredentials : \E op \in ClientOps :
         \E a \in ClientArgs(op) :
           ClientInvoke(r, credentials, op, "mydb", "users", a)
    \/ \E credentials \in ClientCredentials : ClientTestConnection(r, credentials)
    \/ \E response \in Responses(ActionOf(call[r])) : Respond(r, response)

SpecClient == Init /\ [][NextClient]_vars

\* The server under concurrent inbound requests of two tenants.
NextConcurrent ==
  \E r \in Reqs :
    \/ \E incoming \in TenantRequests : Fetch(r, incoming)
    \/ \E tool \in {"mongodb_find_one", "mongodb_count"} :
         ToolCall(r, tool, NoToolArgs)
    \/ \E response \in {HttpResponse(200, None, "{}"), HttpResponse(401, None, "")} :
         Respond(r, response)

SpecConcurrent == Init /\ [][NextConcurrent]_vars

\* ================================================================== claims

\* The last response an invocation received.
LastReply(r) == replies[r][Len(replies[r])]

\* The invocation of r called one of the nine client methods, its request was
\* answered with an HTTP response, and the call has settled.
OpAnswered(r) ==
  /\ pc[r] = "done"
  /\ call[r].op \in ClientOps
  /\ replies[r] # <<>>
  /\ LastReply(r).kind = "response"
  /\ call[r].settled # None

\* How the client call of r settled.
Settled(r) == call[r].settled[1]

\* ---- C1

\* A Retry-After value that is a number: one or more decimal digits.
NumericHeader(h) ==
  h # None /\ Len(h[1]) > 0 /\ \A i \in 1..Len(h[1]) : IsDigit(h[1][i])
RECURSIVE DecimalValue(_)
DecimalValue(s) ==
  IF s = <<>> THEN 0
  ELSE DecimalValue(SubSeq(s, 1, Len(s) - 1)) * 10 + DigitVal(s[Len(s)])

\* C1: a client operation answered with status 429 fails with RateLimitError
\* whose retryAfter is the integer of the Retry-After header when the header
\* is present and numeric, and 60 when it is absent or not numeric.
C1_RetryAfterOrSixty ==
  \A r \in Reqs :
    (OpAnswered(r) /\ LastReply(r).status = 429) =>
      /\ Settled(r).kind = "throw"
      /\ Settled(r).error.name = "RateLimitError"
      /\ Settled(r).error.retryAfter =
           IF NumericHeader(LastReply(r).retryAfter)
             THEN JNum(DecimalValue(LastReply(r).retryAfter[1]))
             ELSE JNum(60)

\* ---- C2

\* C2: a client operation answered with status 401 or 403 fails with
\* AuthenticationError carrying the fixed message, whatever the body.
C2_AuthenticationErrorOn401And403 ==
  \A r \in Reqs :
    (OpAnswered(r) /\ LastReply(r).status \in {401, 403}) =>
      /\ Settled(r).kind = "throw"
      /\ Settled(r).error.name = "AuthenticationError"
      /\ Settled(r).error.message =
           "Authentication failed. Check your API key and App ID."

\* A 403 whose body is a JSON error object has been mapped.
C2_Witness ==
  \E r \in Reqs :
    /\ OpAnswered(r)
    /\ LastReply(r).status = 403
    /\ LastReply(r).body = "{\"error\":\"E\"}"
    /\ Settled(r).kind = "throw"
    /\ Settled(r).error.name = "AuthenticationError"

\* ---- C3

\* The message the claim gives an error body: its error field, else its
\* message field, when it parses as JSON and the field has text; else the
\* generic message.
FieldText(body, key) ==
  LET p == JSONparse(body)
  IN  IF p.ok /\ p.v.t = "object" /\ key \in DOMAIN p.v.v /\ p.v.v[key] # JStr("")
        THEN Some(p.v.v[key].v)
        ELSE None
ClaimedMessage(status, body) ==
  IF FieldText(body, "error") # None THEN FieldText(body, "error")[1]
  ELSE IF FieldText(body, "message") # None THEN FieldText(body, "message")[1]
  ELSE "MongoDB API error: " \o ToString(status)

OtherFailure(status) == ~ResponseOk(status) /\ status \notin {429, 401, 403}

\* The error half of C3.
ApiErrorMapped(r) ==
  (OpAnswered(r) /\ OtherFailure(LastReply(r).status)) =>
    /\ Settled(r).kind = "throw"
    /\ Settled(r).error.name = "MongoDbApiError"
    /\ Settled(r).error.statusCode = LastReply(r).status
    /\ Settled(r).error.message =
         ClaimedMessage(LastReply(r).status, LastReply(r).body)

\* C3: a client operation answered with a non-2xx status other than 429,
\* 401 and 403 fails with MongoDbApiError of that status, whose message is the
\* body's error field, else its message field, when the body parses as JSON,
\* and else the generic message; answered with a 2xx status it returns the
\* parsed JSON body (and fails with the parse error when the body, against
\* the API's contract, is not JSON).
C3_StatusMapping ==
  \A r \in Reqs :
    /\ ApiErrorMapped(r)
    /\ (OpAnswered(r) /\ ResponseOk(LastReply(r).status)) =>
         IF JSONparse(LastReply(r).body).ok
           THEN /\ Settled(r).kind = "return"
                /\ Settled(r).value = JSONparse(LastReply(r).body).v
           ELSE /\ Settled(r).kind = "throw"
                /\ Settled(r).error.name = "SyntaxError"

\* A 500 whose body has both fields has been mapped to the error field, and
\* the invocation is over.
C3_Witness ==
  \E r \in Reqs :
    /\ OpAnswered(r)
    /\ LastReply(r).status = 500
    /\ LastReply(r).body = "{\"error\":\"E\",\"message\":\"M\"}"
    /\ Settled(r).kind = "throw"
    /\ Settled(r).error.message = "E"

\* ---- C4

\* C4: with a non-empty API key, a call of one of the nine client methods
\* issues exactly one outbound request: one when the call is made, and no
\* further one after any response.
C4_ExactlyOneRequest ==
  \A r \in Reqs :
    (call[r].op \in ClientOps /\ TruthyStr(client[r][1].credentials.apiKey)) =>
      /\ Len(sent[r]) = 1
      /\ Len(replies[r]) <= 1

\* A call answered with 429 is over, with one request issued.
C4_Witness ==
  \E r \in Reqs :
    /\ OpAnswered(r)
    /\ LastReply(r).status = 429
    /\ Len(sent[r]) = 1

\* ---- C5

\* The base URL of an inbound request's credentials.
BaseUrlOf(headers) ==
  IF HeaderBaseUrl \in DOMAIN headers /\ headers[HeaderBaseUrl] # ""
    THEN headers[HeaderBaseUrl]
    ELSE "https://data.mongodb-api.com/app/" \o headers[HeaderAppId]
           \o "/endpoint/data/v1"

\* C5: under any interleaving of concurrent requests of different tenants,
\* every outbound request carries the api-key, data source and base URL of the
\* inbound request that triggered it, and each request's client holds that
\* request's credentials.
C5_OutboundCarriesOwnCredentials ==
  \A r \in Reqs :
    /\ \A i \in DOMAIN sent[r] :
         LET h == inbound[r][1].headers
             o == sent[r][i]
         IN  /\ o.headers.apiKey = h[HeaderApiKey]
             /\ o.body.v["dataSource"] = JStr(h[HeaderDataSource])
             /\ o.url = BaseUrlOf(h) \o "/action/" \o ActionOf(call[r])
    /\ client[r] # None =>
         client[r][1].credentials = parseTenantCredentials(inbound[r][1])

\* Two requests of different tenants both have a request outstanding.
C5_Witness ==
  \E r1, r2 \in Reqs :
    /\ pc[r1] = "awaiting" /\ pc[r2] = "awaiting"
    /\ inbound[r1][1].headers[HeaderApiKey] # inbound[r2][1].headers[HeaderApiKey]
    /\ sent[r1] # <<>> /\ sent[r2] # <<>>
    /\ sent[r1][1].headers.apiKey # sent[r2][1].headers.apiKey

\* ---- C6

RequiredHeaders == {HeaderApiKey, HeaderAppId, HeaderDataSource}
MissingHeaders(headers) ==
  {k \in RequiredHeaders : k \notin DOMAIN headers \/ headers[k] = ""}
IsMcpPost(r) ==
  inbound[r] # None /\ inbound[r][1].path = "/mcp" /\ inbound[r][1].method = "POST"

\* C6: a POST to /mcp lacking any of the three required values is rejected
\* with an error naming a missing value, with no client built and no outbound
\* request; a client exists, and a client call is made, only with all three
\* non-empty.
C6_RejectedBeforeClient ==
  \A r \in Reqs :
    IsMcpPost(r) =>
      LET missing == MissingHeaders(inbound[r][1].headers)
      IN  /\ missing # {} =>
               /\ pc[r] = "responded"
               /\ httpResponse[r] # None
               /\ httpResponse[r][1].status = 401
               /\ httpResponse[r][1].message
                    \in {"Missing " \o k \o " header." : k \in missing}
               /\ server[r] = None /\ client[r] = None
               /\ call[r] = NoCall /\ sent[r] = <<>>
          /\ (client[r] # None \/ call[r].op # "none" \/ sent[r] # <<>>) =>
               /\ missing = {}
               /\ TruthyStr(client[r][1].credentials.apiKey)
               /\ TruthyStr(client[r][1].credentials.appId)
               /\ TruthyStr(client[r][1].credentials.dataSource)

\* A request with a key and an app id but an empty data source was rejected.
C6_Witness ==
  \E r \in Reqs :
    /\ IsMcpPost(r)
    /\ MissingHeaders(inbound[r][1].headers) = {HeaderDataSource}
    /\ pc[r] = "responded"
    /\ httpResponse[r][1].message = "Missing X-MongoDB-Data-Source header."

\* ---- C7

JsonArgNames ==
  {"filter", "projection", "sort", "document", "documents", "update",
   "pipeline", "aggregations"}
MalformedArg(args) == \E k \in JsonArgNames : args[k] = Some("{bad")
IsErrorEnvelope(envelope) ==
  "isError" \in DOMAIN envelope /\ envelope.isError = TRUE

\* C7: every invocation of a document or aggregation tool that is over ended
\* by returning an envelope, and the envelope has isError: true when an
\* argument was malformed JSON or the client call threw.
C7_ErrorsBecomeEnvelopes ==
  \A r \in Reqs :
    (pc[r] = "done" /\ call[r].tool \in DocumentTools \cup AggregationTools) =>
      /\ outcome[r] # None
      /\ outcome[r][1].kind = "envelope"
      /\ (\/ MalformedArg(call[r].args)
          \/ (call[r].settled # None /\ Settled(r).kind = "throw")) =>
           IsErrorEnvelope(outcome[r][1].envelope)

\* mongodb_find called with filter "{bad" returned a failure envelope.
C7_Witness ==
  \E r \in Reqs :
    /\ pc[r] = "done"
    /\ call[r].tool = "mongodb_find"
    /\ call[r].args.filter = Some("{bad")
    /\ outcome[r][1].kind = "envelope"
    /\ IsErrorEnvelope(outcome[r][1].envelope)

\* ---- C8

MarkedRetryable(error) == "retryable" \in DOMAIN error /\ error.retryable

\* C8: the envelope of an error passed to formatError has isError: true and
\* a JSON object as text whose error field is "Error: " and the message, with
\* " (retryable)" appended exactly when the error is marked retryable.
C8_FailureEnvelopeText ==
  \A r \in Reqs :
    (outcome[r] # None /\ outcome[r][1].kind = "envelope"
       /\ outcome[r][1].thrown # None) =>
      LET error == outcome[r][1].thrown[1]
          envelope == outcome[r][1].envelope
          text == envelope.content[1].text
      IN  /\ IsErrorEnvelope(envelope)
          /\ text.t = "object"
          /\ "error" \in DOMAIN text.v
          /\ text.v["error"] =
               JStr("Error: " \o error.message
                      \o (IF MarkedRetryable(error) THEN " (retryable)" ELSE ""))

\* A rate-limit error was formatted with the retryable mark.
C8_Witness ==
  \E r \in Reqs :
    /\ outcome[r] # None
    /\ outcome[r][1].kind = "envelope"
    /\ outcome[r][1].thrown # None
    /\ outcome[r][1].thrown[1].name = "RateLimitError"
    /\ outcome[r][1].envelope.content[1].text.v["error"] =
         JStr("Error: Rate limit exceeded (retryable)")

\* ---- C9

\* The body of the i-th outbound request of r, by key.
BodyOf(r, i) == sent[r][i].body.v

\* C9 as stated: each of projection, sort, limit, skip and upsert is a key of
\* the outbound body only when the caller of the client method supplied it.
C9_AsStated ==
  \A r \in Reqs : \A i \in DOMAIN sent[r] :
    call[r].op \in ClientOps =>
      \A k \in {"projection", "sort", "limit", "skip", "upsert"} :
        k \in DOMAIN BodyOf(r, i) => call[r].a[k] # Undef

\* C9 amended: each of projection, sort, limit and skip is a key of the
\* outbound body only when the caller supplied it, and then with the value
\* supplied; upsert is a key of every updateOne and updateMany body, false
\* when the caller left it out, and of no other body.
C9_OptionalKeys ==
  \A r \in Reqs : \A i \in DOMAIN sent[r] :
    call[r].op \in ClientOps =>
      /\ \A k \in {"projection", "sort", "limit", "skip"} :
           k \in DOMAIN BodyOf(r, i) =>
             /\ call[r].a[k] # Undef
             /\ BodyOf(r, i)[k] = call[r].a[k]
      /\ "upsert" \in DOMAIN BodyOf(r, i) <=>
           call[r].op \in {"updateOne", "updateMany"}
      /\ call[r].op \in {"updateOne", "updateMany"} =>
           BodyOf(r, i)["upsert"] =
             IF call[r].a.upsert = Undef THEN JBool(FALSE) ELSE call[r].a.upsert

\* updateOne was called without upsert and find without projection, sort,
\* limit and skip.
C9_Witness ==
  \E r \in Reqs :
    /\ call[r].op = "updateOne"
    /\ call[r].a.upsert = Undef
    /\ sent[r] # <<>>
    /\ BodyOf(r, 1)["upsert"] = JBool(FALSE)

\* ---- C10

\* C10 as stated: in the body mongodb_find sends through client find, each of
\* sort, projection and skip is a key if and only if the argument was supplied.
C10_AsStated ==
  \A r \in Reqs : \A i \in DOMAIN sent[r] :
    (call[r].tool = "mongodb_find" /\ call[r].op = "find") =>
      \A k \in {"sort", "projection", "skip"} :
        k \in DOMAIN BodyOf(r, i) <=> call[r].args[k] # None

\* A JSON-string argument supplied with a text whose value is truthy.
SuppliedTruthy(arg) ==
  TruthyStr(arg) /\ JSONparse(arg[1]).ok /\ Truthy(JSONparse(arg[1]).v)

\* C10 amended: skip is a key if and only if it was supplied; sort and
\* projection are keys if and only if they were supplied with a truthy value
\* (to the tool: a non-empty text whose JSON value is not null, false, 0 or
\* ""); with none of the three supplied, none is a key.
C10_FindOptionalKeys ==
  \A r \in Reqs : \A i \in DOMAIN sent[r] :
    (call[r].tool = "mongodb_find" /\ call[r].op = "find") =>
      /\ \A k \in {"sort", "projection"} :
           /\ k \in DOMAIN BodyOf(r, i) <=> SuppliedTruthy(call[r].args[k])
           /\ k \in DOMAIN BodyOf(r, i) <=> Truthy(call[r].a[k])
           /\ k \in DOMAIN BodyOf(r, i) =>
                BodyOf(r, i)[k] = JSONparse(call[r].args[k][1]).v
      /\ "skip" \in DOMAIN BodyOf(r, i) <=> call[r].args.skip # None
      /\ "skip" \in DOMAIN BodyOf(r, i) =>
           BodyOf(r, i)["skip"] = JNum(call[r].args.skip[1])

\* mongodb_find was called with none of the three, and the body has none.
C10_Witness ==
  \E r \in Reqs :
    /\ call[r].tool = "mongodb_find"
    /\ call[r].op = "find"
    /\ sent[r] # <<>>
    /\ call[r].args.sort = None
    /\ call[r].args.projection = None
    /\ call[r].args.skip = None
    /\ {"sort", "projection", "skip"} \cap DOMAIN BodyOf(r, 1) = {}

\* ---- C11

\* C11: the body of every outbound request, of every operation and of both
\* probes of testConnection, has the key dataSource, and its value is the data
\* source of the credentials the client was built from.
C11_DataSourceInEveryBody ==
  \A r \in Reqs : \A i \in DOMAIN sent[r] :
    /\ "dataSource" \in DOMAIN BodyOf(r, i)
    /\ BodyOf(r, i)["dataSource"] = JStr(client[r][1].credentials.dataSource[1])

\* mongodb_insert_one sent a document, and the body has the data source.
C11_Witness ==
  \E r \in Reqs :
    /\ call[r].tool = "mongodb_insert_one"
    /\ sent[r] # <<>>
    /\ "document" \in DOMAIN BodyOf(r, 1)
    /\ BodyOf(r, 1)["dataSource"] = JStr("Cluster0")

\* ---- C12

\* C12: the URL of every outbound request is the supplied base URL, verbatim,
\* followed by /action/ and the action, when the credentials have a base URL;
\* and the default host, the app id, /endpoint/data/v1/action/ and the action
\* when they have none.
C12_RequestUrl ==
  \A r \in Reqs : \A i \in DOMAIN sent[r] :
    LET credentials == client[r][1].credentials
    IN  sent[r][i].url =
          IF credentials.baseUrl # None
            THEN credentials.baseUrl[1] \o "/action/" \o ActionOf(call[r])
            ELSE "https://data.mongodb-api.com/app/" \o credentials.appId[1]
                   \o "/endpoint/data/v1/action/" \o ActionOf(call[r])

\* A request went to a supplied base URL.
C12_Witness ==
  \E r \in Reqs :
    /\ sent[r] # <<>>
    /\ client[r][1].credentials.baseUrl = Some("https://gw.example/v1")
    /\ client[r][1].credentials.appId = Some("app-A")
    /\ sent[r][1].url = "https://gw.example/v1/action/insertOne"

\* ---- C13

\* An outbound request that is a find with limit 1 on a collection.
IsProbe(o, database, collection) ==
  /\ o.method = "POST"
  /\ o.body.v["database"] = JStr(database)
  /\ o.body.v["collection"] = JStr(collection)
  /\ o.body.v["filter"] = EmptyObj
  /\ o.body.v["limit"] = JNum(1)

\* A reply that makes request throw: no response, a non-2xx status, or a 2xx
\* body that is not JSON.
ProbeThrows(reply) ==
  \/ reply.kind = "failed"
  \/ ~ResponseOk(reply.status)
  \/ ~JSONparse(reply.body).ok

\* An invocation of mongodb_test_connection.
IsConnectionTest(r) == call[r].tool = "mongodb_test_connection"

\* What testConnection reported.
Reported(r) == outcome[r][1].envelope.content[1].text.v

\* C13: testConnection first sends a find on admin.system.version with limit
\* 1; it sends a second find, on test.__connection_test__, exactly when the
\* first attempt threw, whatever it threw; when the first attempt succeeded it
\* is over after one request and reports connected: true.
C13_SecondProbeIffFirstThrows ==
  \A r \in Reqs :
    IsConnectionTest(r) =>
      /\ Len(sent[r]) \in {1, 2}
      /\ sent[r][1].url = client[r][1].baseUrl \o "/action/find"
      /\ IsProbe(sent[r][1], "admin", "system.version")
      /\ replies[r] = <<>> => Len(sent[r]) = 1
      /\ replies[r] # <<>> => (Len(sent[r]) = 2 <=> ProbeThrows(replies[r][1]))
      /\ Len(sent[r]) = 2 =>
           /\ sent[r][2].url = client[r][1].baseUrl \o "/action/find"
           /\ IsProbe(sent[r][2], "test", "__connection_test__")
      /\ (replies[r] # <<>> /\ ~ProbeThrows(replies[r][1])) =>
           /\ pc[r] = "done"
           /\ Reported(r)["connected"] = JBool(TRUE)

\* The first probe was answered with 401 and the second probe was sent.
C13_Witness ==
  \E r \in Reqs :
    /\ IsConnectionTest(r)
    /\ Len(replies[r]) = 1
    /\ replies[r][1].kind = "response"
    /\ replies[r][1].status = 401
    /\ Len(sent[r]) = 2
    /\ IsProbe(sent[r][2], "test", "__connection_test__")

\* ---- C14

\* testConnection is over after both probes were answered.
BothProbesAnswered(r) ==
  IsConnectionTest(r) /\ pc[r] = "done" /\ Len(replies[r]) = 2

\* C14: when the first probe failed and the second probe was answered 401 or
\* 403, testConnection reports connected: false with the authentication
\* message, whatever made the first probe fail.
C14_SecondProbeAuthFailure ==
  \A r \in Reqs :
    (/\ BothProbesAnswered(r)
     /\ replies[r][2].kind = "response"
     /\ replies[r][2].status \in {401, 403}) =>
      /\ Reported(r)["connected"] = JBool(FALSE)
      /\ Reported(r)["message"] =
           JStr("Authentication failed. Check your API key and App ID.")

\* The first probe got a 500, the second a 403.
C14_Witness ==
  \E r \in Reqs :
    /\ BothProbesAnswered(r)
    /\ replies[r][1].kind = "response" /\ replies[r][1].status = 500
    /\ replies[r][2].kind = "response" /\ replies[r][2].status = 403
    /\ Reported(r)["connected"] = JBool(FALSE)

\* ---- C15

\* C15: when the first probe failed and the second probe was answered with a
\* non-2xx status that request turns into a plain MongoDbApiError (any but
\* 401, 403 and 429), or succeeded, testConnection reports connected: true.
C15_SecondProbeReachable ==
  \A r \in Reqs :
    (/\ BothProbesAnswered(r)
     /\ replies[r][2].kind = "response"
     /\ replies[r][2].status \notin {401, 403, 429}
     /\ ResponseOk(replies[r][2].status) => JSONparse(replies[r][2].body).ok) =>
      Reported(r)["connected"] = JBool(TRUE)

\* The first probe got a 401, the second a 404, and the report is connected.
C15_Witness ==
  \E r \in Reqs :
    /\ BothProbesAnswered(r)
    /\ replies[r][1].kind = "response" /\ replies[r][1].status = 401
    /\ replies[r][2].kind = "response" /\ replies[r][2].status = 404
    /\ Reported(r)["connected"] = JBool(TRUE)

\* ---- C16

\* The JSON object in the text of the envelope an invocation returned.
Payload(r) == outcome[r][1].envelope.content[1].text.v

\* A JSON-string argument whose text is JSON but no array.
NonArrayJson(arg) == JSONparse(arg[1]).ok /\ JSONparse(arg[1]).v.t # "array"

\* The invocation is over with a failure envelope of this error text, and no
\* outbound request was made.
FailedBeforeAnyRequest(r, text) ==
  /\ pc[r] = "done"
  /\ sent[r] = <<>>
  /\ outcome[r][1].kind = "envelope"
  /\ IsErrorEnvelope(outcome[r][1].envelope)
  /\ Payload(r)["error"] = JStr(text)

\* C16: mongodb_insert_many with documents that parse to a value that is no
\* array returns a failure envelope saying 'Documents must be an array' and
\* sends nothing; mongodb_aggregate with such a pipeline likewise returns a
\* failure envelope with its own descriptive error and sends nothing.
C16_NonArrayRejected ==
  \A r \in Reqs :
    /\ (call[r].tool = "mongodb_insert_many"
          /\ NonArrayJson(call[r].args.documents)) =>
         FailedBeforeAnyRequest(r, "Error: Documents must be an array")
    /\ (call[r].tool = "mongodb_aggregate"
          /\ NonArrayJson(call[r].args.pipeline)) =>
         FailedBeforeAnyRequest(r, "Error: Pipeline must be an array of stage objects")

\* mongodb_insert_many was called with a single object as documents.
C16_Witness ==
  \E r \in Reqs :
    /\ call[r].tool = "mongodb_insert_many"
    /\ call[r].args.documents = Some("{\"a\":1}")
    /\ FailedBeforeAnyRequest(r, "Error: Documents must be an array")

\* ---- C17

\* The client call of the tool returned a JSON object.
ReturnedObject(r, tool) ==
  /\ call[r].tool = tool
  /\ OpAnswered(r)
  /\ Settled(r).kind = "return"
  /\ Settled(r).value.t = "object"

\* The object the client call returned, by key.
Result(r) == Settled(r).value.v

\* The invocation returned an envelope that is no failure.
IsSuccess(r) ==
  outcome[r][1].kind = "envelope" /\ ~IsErrorEnvelope(outcome[r][1].envelope)

\* C17: the message of mongodb_update_one is 'Document updated successfully'
\* when modifiedCount > 0, whether or not upsertedId is present; else
\* 'Document upserted successfully' when upsertedId is present; else 'No
\* documents modified'.
C17_UpdateOneMessageOrder ==
  \A r \in Reqs :
    ReturnedObject(r, "mongodb_update_one") =>
      /\ IsSuccess(r)
      /\ Payload(r)["message"] =
           JStr(IF "modifiedCount" \in DOMAIN Result(r)
                     /\ Result(r)["modifiedCount"].v > 0
                  THEN "Document updated successfully"
                  ELSE IF "upsertedId" \in DOMAIN Result(r)
                    THEN "Document upserted successfully"
                    ELSE "No documents modified")

\* A result with modifiedCount 1 and an upsertedId was reported as updated.
C17_Witness ==
  \E r \in Reqs :
    /\ ReturnedObject(r, "mongodb_update_one")
    /\ {"modifiedCount", "upsertedId"} \subseteq DOMAIN Result(r)
    /\ Result(r)["modifiedCount"] = JNum(1)
    /\ Result(r)["upsertedId"] = JStr("x")
    /\ Payload(r)["message"] = JStr("Document updated successfully")

\* ---- C18

\* `filter ? JSON.parse(filter) : {}` of a filter that parses.
FilterOf(args) ==
  IF TruthyStr(args.filter) THEN JSONparse(args.filter[1]).v ELSE EmptyObj

\* The aggregate call of the tool returned an object whose documents field is
\* an array.
ReturnedDocuments(r, tool) ==
  /\ ReturnedObject(r, tool)
  /\ "documents" \in DOMAIN Result(r)
  /\ Result(r)["documents"].t = "array"

\* The documents the aggregate call returned.
Documents(r) == Result(r)["documents"].v

\* C18: mongodb_count sends, as one aggregate request, the pipeline
\* [{$match: filter}, {$count: 'count'}]; it returns a success envelope of
\* {count, filter} in which count is 0 when no document came back and the
\* count field of the first document otherwise.
C18_CountPipelineAndResult ==
  \A r \in Reqs :
    call[r].tool = "mongodb_count" =>
      /\ \A i \in DOMAIN sent[r] :
           /\ sent[r][i].url = client[r][1].baseUrl \o "/action/aggregate"
           /\ BodyOf(r, i)["pipeline"] =
                JArr(<<JObj("$match" :> FilterOf(call[r].args)),
                       JObj("$count" :> JStr("count"))>>)
      /\ (ReturnedDocuments(r, "mongodb_count") /\ Documents(r) = <<>>) =>
           /\ IsSuccess(r)
           /\ Payload(r) = Fields2("count", JNum(0), "filter", FilterOf(call[r].args))
      /\ (/\ ReturnedDocuments(r, "mongodb_count")
          /\ Documents(r) # <<>>
          /\ Documents(r)[1].t = "object"
          /\ "count" \in DOMAIN Documents(r)[1].v) =>
           /\ IsSuccess(r)
           /\ Payload(r) = Fields2("count", Documents(r)[1].v["count"],
                                   "filter", FilterOf(call[r].args))

\* A count whose pipeline produced no document returned count 0.
C18_Witness ==
  \E r \in Reqs :
    /\ ReturnedDocuments(r, "mongodb_count")
    /\ Documents(r) = <<>>
    /\ IsSuccess(r)
    /\ Payload(r)["count"] = JNum(0)

\* ---- C19

\* Every document is a group document: an object with an _id.
GroupDocuments(docs) ==
  \A i \in DOMAIN docs : docs[i].t = "object" /\ "_id" \in DOMAIN docs[i].v

\* A group key that is not null.
IsValue(v) == v # JNull

\* C19: mongodb_distinct sends the pipeline [{$match: filter}, {$group: {_id:
\* '$' + field}}, {$sort: {_id: 1}}]; the values it returns are the _id of
\* the group documents that came back, in their order, without the null
\* ones, and count is their number.
C19_DistinctValues ==
  \A r \in Reqs :
    call[r].tool = "mongodb_distinct" =>
      /\ \A i \in DOMAIN sent[r] :
           BodyOf(r, i)["pipeline"] =
             JArr(<<JObj("$match" :> FilterOf(call[r].args)),
                    JObj("$group" :>
                           JObj("_id" :> JStr("$" \o call[r].args.field[1]))),
                    JObj("$sort" :> JObj("_id" :> JNum(1)))>>)
      /\ (ReturnedDocuments(r, "mongodb_distinct")
            /\ GroupDocuments(Documents(r))) =>
           LET ids == [i \in DOMAIN Documents(r) |-> Documents(r)[i].v["_id"]]
               values == SelectSeq(ids, IsValue)
           IN  /\ IsSuccess(r)
               /\ Payload(r)["values"] = JArr(values)
               /\ Payload(r)["count"] = JNum(Len(values))
               /\ \A i \in DOMAIN Payload(r)["values"].v :
                    Payload(r)["values"].v[i] # JNull

\* Groups b, null, a came back and the values are b, a.
C19_Witness ==
  \E r \in Reqs :
    /\ ReturnedDocuments(r, "mongodb_distinct")
    /\ Len(Documents(r)) = 3
    /\ Documents(r)[2].v["_id"] = JNull
    /\ Payload(r)["values"] = JArr(<<JStr("b"), JStr("a")>>)
    /\ Payload(r)["count"] = JNum(2)

\* ---- C20

\* C20: for every groupBy name and every group document that came back, the
\* result object of mongodb_group_by at the same place has the document's
\* _id under the groupBy name, has no _id key, and has every other field of
\* the document with its value.
C20_IdRenamedToGroupBy ==
  \A r \in Reqs :
    (ReturnedDocuments(r, "mongodb_group_by") /\ GroupDocuments(Documents(r))) =>
      /\ IsSuccess(r)
      /\ Len(Payload(r)["results"].v) = Len(Documents(r))
      /\ \A i \in DOMAIN Documents(r) :
           LET groupBy == call[r].args.groupBy[1]
               document == Documents(r)[i].v
               result == Payload(r)["results"].v[i].v
           IN  /\ groupBy \in DOMAIN result
               /\ result[groupBy] = document["_id"]
               /\ "_id" \notin DOMAIN result
               /\ \A k \in DOMAIN document \ {"_id"} :
                    k \in DOMAIN result /\ result[k] = document[k]

\* ---- C21

\* The aggregations the caller asked for: the argument's JSON value, or
\* {count: true} when the argument is left out.
AggregationsOf(args) ==
  IF TruthyStr(args.aggregations) THEN JSONparse(args.aggregations[1]).v
  ELSE JObj("count" :> JBool(TRUE))

\* The caller asked for the aggregation of this key.
Asked(args, key) ==
  /\ AggregationsOf(args).t = "object"
  /\ key \in DOMAIN AggregationsOf(args).v
  /\ Truthy(AggregationsOf(args).v[key])

\* The field an aggregation is computed on, with the $ of a field path.
FieldPath(args, key) == JStr("$" \o AggregationsOf(args).v[key].v)

\* The $group stage the claim describes, by key.
ClaimedGroupStage(args) ==
  [k \in {"_id"} \cup (IF Asked(args, "count") THEN {"count"} ELSE {})
           \cup (IF Asked(args, "sum") THEN {"total"} ELSE {})
           \cup (IF Asked(args, "avg") THEN {"average"} ELSE {})
           \cup (IF Asked(args, "min") THEN {"min"} ELSE {})
           \cup (IF Asked(args, "max") THEN {"max"} ELSE {}) |->
     CASE k = "_id" -> JStr("$" \o args.groupBy[1])
       [] k = "count" -> JObj("$sum" :> JNum(1))
       [] k = "total" -> JObj("$sum" :> FieldPath(args, "sum"))
       [] k = "average" -> JObj("$avg" :> FieldPath(args, "avg"))
       [] k = "min" -> JObj("$min" :> FieldPath(args, "min"))
       [] OTHER -> JObj("$max" :> FieldPath(args, "max"))]

\* C21: every request of mongodb_group_by carries the pipeline [$match
\* filter, $group stage, $sort {count: -1, _id: 1}], whose $group stage has
\* _id '$' + groupBy and count, total, average, min and max exactly for the
\* aggregations asked for: count only when the argument is left out.
C21_GroupStage ==
  \A r \in Reqs : \A i \in DOMAIN sent[r] :
    call[r].tool = "mongodb_group_by" =>
      BodyOf(r, i)["pipeline"] =
        JArr(<<JObj("$match" :> FilterOf(call[r].args)),
               JObj("$group" :> JObj(ClaimedGroupStage(call[r].args))),
               JObj("$sort" :> JObj(Fields2("count", JNum(0 - 1), "_id", JNum(1))))>>)

\* A group_by that asked for avg, min and max sent a stage without count.
C21_Witness ==
  \E r \in Reqs :
    /\ call[r].tool = "mongodb_group_by"
    /\ sent[r] # <<>>
    /\ Asked(call[r].args, "avg")
    /\ DOMAIN BodyOf(r, 1)["pipeline"].v[2].v["$group"].v =
         {"_id", "average", "min", "max"}

\* ---- C22

MutationTools ==
  {"mongodb_insert_one", "mongodb_insert_many", "mongodb_update_one",
   "mongodb_update_many", "mongodb_delete_one", "mongodb_delete_many"}
ReadTools == {"mongodb_find_one", "mongodb_find"}

\* The invocation of a document or aggregation tool is over and succeeded:
\* its handler returned from the try block.
Succeeded(r) ==
  /\ pc[r] = "done"
  /\ call[r].tool \in DocumentTools \cup AggregationTools
  /\ outcome[r][1].kind = "envelope"
  /\ outcome[r][1].thrown = None

\* The value in the text of the envelope an invocation returned.
PayloadValue(r) == outcome[r][1].envelope.content[1].text

\* The fields of the operation result a mutation tool passes on.
ResultFields(tool) ==
  CASE tool = "mongodb_insert_one" -> {"insertedId"}
    [] tool = "mongodb_insert_many" -> {"insertedIds"}
    [] tool \in {"mongodb_update_one", "mongodb_update_many"} ->
         {"matchedCount", "modifiedCount", "upsertedId"}
    [] OTHER -> {"deletedCount"}

\* C22 as stated: every successful invocation returns an envelope without
\* isError whose payload is a JSON object with success: true, and with a
\* message when the tool is a mutation tool.
C22_AsStated ==
  \A r \in Reqs :
    Succeeded(r) =>
      /\ "isError" \notin DOMAIN outcome[r][1].envelope
      /\ PayloadValue(r).t = "object"
      /\ "success" \in DOMAIN PayloadValue(r).v
      /\ PayloadValue(r).v["success"] = JBool(TRUE)
      /\ call[r].tool \in MutationTools => "message" \in DOMAIN PayloadValue(r).v

\* C22 amended: every successful invocation returns an envelope without
\* isError.  The payload of a mutation tool is an object with success: true,
\* a message and the fields of the operation result; the payload of
\* mongodb_find_one and mongodb_find is the operation result itself, and the
\* payload of an aggregation tool is an object, both without a success field.
C22_SuccessEnvelope ==
  \A r \in Reqs :
    Succeeded(r) =>
      /\ "isError" \notin DOMAIN outcome[r][1].envelope
      /\ call[r].tool \in MutationTools =>
           /\ PayloadValue(r).t = "object"
           /\ "success" \in DOMAIN PayloadValue(r).v
           /\ PayloadValue(r).v["success"] = JBool(TRUE)
           /\ "message" \in DOMAIN PayloadValue(r).v
           /\ PayloadValue(r).v["message"].t = "string"
           /\ \A k \in ResultFields(call[r].tool) \cap DOMAIN Result(r) :
                /\ k \in DOMAIN PayloadValue(r).v
                /\ PayloadValue(r).v[k] = Result(r)[k]
      /\ call[r].tool \in ReadTools =>
           /\ PayloadValue(r) = Settled(r).value
           /\ PayloadValue(r).t = "object" => "success" \notin DOMAIN PayloadValue(r).v
      /\ call[r].tool \in AggregationTools =>
           /\ PayloadValue(r).t = "object"
           /\ "success" \notin DOMAIN PayloadValue(r).v

\* mongodb_insert_one succeeded: success, message and insertedId.
C22_Witness ==
  \E r \in Reqs :
    /\ Succeeded(r)
    /\ call[r].tool = "mongodb_insert_one"
    /\ PayloadValue(r).v =
         Fields3("success", JBool(TRUE),
                 "message", JStr("Document inserted successfully"),
                 "insertedId", JStr("id1"))

\* ---- C23

\* The tools the README lists under "Available Tools".
ReadmeTools ==
  {"mongodb_find_one", "mongodb_find", "mongodb_insert_one",
   "mongodb_insert_many", "mongodb_update_one", "mongodb_update_many",
   "mongodb_delete_one", "mongodb_delete_many", "mongodb_replace_one",
   "mongodb_aggregate"}

\* C23: the server built for a request has registered every tool the README
\* lists under "Available Tools".
C23_ReadmeToolsRegistered ==
  \A r \in Reqs : server[r] # None => ReadmeTools \subseteq server[r][1]

\* ---- C24

\* A direct call of testConnection by a caller that holds the client.
IsDirectTest(r) == call[r].tool = "none" /\ call[r].probe > 0

\* The kinds of outcome a probe can have.
ProbeOutcome(reply) ==
  CASE reply.kind = "failed" -> "transport failure"
    [] reply.status = 429 -> "429"
    [] reply.status \in {401, 403} -> "401/403"
    [] ~ResponseOk(reply.status) -> "other non-2xx"
    [] JSONparse(reply.body).ok -> "success"
    [] OTHER -> "no JSON"

\* C24: testConnection never throws and is over after at most two outbound
\* requests, whatever the outcomes of its probes: it has sent one or two
\* requests while it waits, and when it is over it has returned an object of
\* exactly a boolean connected and a string message.  When the second probe
\* failed with an error that is no MongoDbApiError, it returned connected:
\* false with the message of that error.
C24_TestConnectionResult ==
  \A r \in Reqs :
    IsDirectTest(r) =>
      /\ Len(sent[r]) <= 2
      /\ pc[r] \in {"awaiting", "done"}
      /\ pc[r] = "awaiting" => Len(replies[r]) = Len(sent[r]) - 1
      /\ pc[r] = "done" =>
           /\ Len(replies[r]) = Len(sent[r])
           /\ outcome[r][1].kind = "return"
           /\ outcome[r][1].value.t = "object"
           /\ DOMAIN outcome[r][1].value.v = {"connected", "message"}
           /\ outcome[r][1].value.v["connected"].t = "boolean"
           /\ outcome[r][1].value.v["message"].t = "string"
           /\ (/\ call[r].probe = 2
               /\ Settled(r).kind = "throw"
               /\ ~InstanceOfMongoDbApiError(Settled(r).error))
                => /\ outcome[r][1].value.v["connected"] = JBool(FALSE)
                   /\ outcome[r][1].value.v["message"]
                        = JStr(Settled(r).error.message)

\* Both probes were answered, the first with a 429 and the second not at
\* all: testConnection returned connected: false with the transport's message.
C24_Witness ==
  \E r \in Reqs :
    /\ IsDirectTest(r)
    /\ pc[r] = "done"
    /\ Len(replies[r]) = 2
    /\ ProbeOutcome(replies[r][1]) = "429"
    /\ ProbeOutcome(replies[r][2]) = "transport failure"
    /\ outcome[r][1].kind = "return"
    /\ outcome[r][1].value = ConnectionResult(FALSE, "fetch failed")

\* ---- C25

\* The JSON-string arguments a tool parses: the required ones always, the
\* optional ones when they are a non-empty string.
RequiredJsonArgs(tool) ==
  CASE tool = "mongodb_insert_one" -> {"document"}
    [] tool = "mongodb_insert_many" -> {"documents"}
    [] tool \in {"mongodb_update_one", "mongodb_update_many"} -> {"filter", "update"}
    [] tool \in {"mongodb_delete_one", "mongodb_delete_many"} -> {"filter"}
    [] tool = "mongodb_aggregate" -> {"pipeline"}
    [] OTHER -> {}
OptionalJsonArgs(tool) ==
  CASE tool = "mongodb_find_one" -> {"filter", "projection"}
    [] tool = "mongodb_find" -> {"filter", "projection", "sort"}
    [] tool \in {"mongodb_count", "mongodb_distinct"} -> {"filter"}
    [] tool = "mongodb_group_by" -> {"filter", "aggregations"}
    [] OTHER -> {}

\* An argument of the tool is supplied and its text is no JSON.
FailsToParse(tool, args) ==
  \/ \E k \in RequiredJsonArgs(tool) : ~JSONparse(args[k][1]).ok
  \/ \E k \in OptionalJsonArgs(tool) :
       TruthyStr(args[k]) /\ ~JSONparse(args[k][1]).ok

\* C25: when an argument of a document or aggregation tool fails to parse,
\* the second of two included, the invocation is over with a failure envelope
\* and has made no outbound request.
C25_ParseBeforeClient ==
  \A r \in Reqs :
    (/\ call[r].tool \in DocumentTools \cup AggregationTools
     /\ FailsToParse(call[r].tool, call[r].args))
      => /\ pc[r] = "done"
         /\ sent[r] = <<>>
         /\ outcome[r][1].kind = "envelope"
         /\ IsErrorEnvelope(outcome[r][1].envelope)

\* mongodb_update_one with a well-formed filter and a malformed update ended
\* in a failure envelope without a request.
C25_Witness ==
  \E r \in Reqs :
    /\ call[r].tool = "mongodb_update_one"
    /\ call[r].args.filter = Some("{\"a\":1}")
    /\ call[r].args.update = Some("{bad")
    /\ pc[r] = "done"
    /\ sent[r] = <<>>
    /\ IsErrorEnvelope(outcome[r][1].envelope)

\* ---- C26

\* The client of r was built from credentials without a usable apiKey.
NoApiKey(r) == client[r] # None /\ ~TruthyStr(client[r][1].credentials.apiKey)

NoApiKeyError ==
  AuthenticationError("No API key provided. Include X-MongoDB-API-Key header.")

\* C26: on a client built from credentials whose apiKey is missing or empty,
\* every method call is over at once, having thrown the AuthenticationError
\* "No API key provided. Include X-MongoDB-API-Key header." without an outbound
\* request, and testConnection is over at once, having returned connected:
\* false without an outbound request.
C26_NoApiKeyNoRequest ==
  \A r \in Reqs :
    (NoApiKey(r) /\ call[r].tool = "none") =>
      /\ pc[r] = "done"
      /\ sent[r] = <<>>
      /\ call[r].op \in ClientOps =>
           /\ outcome[r][1].kind = "throw"
           /\ outcome[r][1].error = NoApiKeyError
           /\ InstanceOfAuthenticationError(outcome[r][1].error)
      /\ IsDirectTest(r) =>
           /\ outcome[r][1].kind = "return"
           /\ Get(outcome[r][1].value, "connected") = JBool(FALSE)

\* A method call and a testConnection on a client with an empty apiKey.
C26_Witness ==
  \E r \in Reqs :
    /\ NoApiKey(r)
    /\ client[r][1].credentials.apiKey = Some("")
    /\ IsDirectTest(r)
    /\ pc[r] = "done"
    /\ sent[r] = <<>>
    /\ outcome[r][1].kind = "return"
    /\ Get(outcome[r][1].value, "connected") = JBool(FALSE)

\* ---- C27

\* C27: an invocation of mongodb_test_connection that is over returned an
\* envelope; the envelope has isError only when testConnection threw; when
\* testConnection returned, connected: false included, the envelope has no
\* isError and its text is the JSON of the result, connected and message.
C27_FailedProbeIsNormalEnvelope ==
  \A r \in Reqs :
    (IsConnectionTest(r) /\ pc[r] = "done") =>
      /\ outcome[r][1].kind = "envelope"
      /\ "isError" \in DOMAIN outcome[r][1].envelope
           => outcome[r][1].thrown # None
      /\ outcome[r][1].thrown = None =>
           /\ "isError" \notin DOMAIN outcome[r][1].envelope
           /\ Len(outcome[r][1].envelope.content) = 1
           /\ outcome[r][1].envelope.content[1].type = "text"
           /\ DOMAIN Reported(r) = {"connected", "message"}
           /\ Reported(r)["connected"].t = "boolean"
           /\ Reported(r)["message"].t = "string"

\* Both probes failed in transport: the envelope carries connected: false and
\* the transport's message, without isError.
C27_Witness ==
  \E r \in Reqs :
    /\ IsConnectionTest(r)
    /\ pc[r] = "done"
    /\ Len(replies[r]) = 2
    /\ replies[r][2].kind = "failed"
    /\ outcome[r][1].thrown = None
    /\ "isError" \notin DOMAIN outcome[r][1].envelope
    /\ Reported(r) = [connected |-> JBool(FALSE), message |-> JStr("fetch failed")]

====
